---- MODULE Spec2Model ----
(***************************************************************************)
(* A model of the K token contract (kt/src): the asset treasury, the       *)
(* weighted-average balance ledger, the price converter and the buy/sell   *)
(* settlement pipeline with its promise callbacks.                         *)
(*                                                                         *)
(* Balance is u128.  TLC's integers are 32 bit, so a u128 is a sequence of *)
(* decimal limbs (three digits each, least significant first, no leading   *)
(* zero limb; zero is the empty sequence).  All arithmetic below is exact  *)
(* on that representation; the checked_* operators compare the exact       *)
(* result against u128::MAX = 2^128 - 1 as the Rust operations do.         *)
(***************************************************************************)
EXTENDS Integers, Sequences, FiniteSets, TLC

\* ------------------------------------------------------------------------
\* Arbitrary precision naturals
\* ------------------------------------------------------------------------
Base == 10 * 100

Zero == <<>>

RECURSIVE Norm(_)
\* drop zero limbs at the most significant end
Norm(a) == IF a = <<>> THEN <<>>
           ELSE IF a[Len(a)] = 0 THEN Norm(SubSeq(a, 1, Len(a) - 1))
           ELSE a

RECURSIVE Rev(_)
Rev(s) == IF s = <<>> THEN <<>> ELSE Append(Rev(Tail(s)), Head(s))

\* A literal written as in the source, in groups of three digits:
\* 1_000_000 is BE(<<1, 0, 0>>).
BE(groups) == Norm(Rev(groups))

\* a small natural (below Base * Base * Base) as a number
Nat3(n) == Norm(<<n % Base, (n \div Base) % Base, n \div (Base * Base)>>)

Limb(a, i) == IF i <= Len(a) THEN a[i] ELSE 0

MaxI(x, y) == IF x >= y THEN x ELSE y

RECURSIVE CmpFrom(_, _, _)
CmpFrom(a, b, i) == IF i = 0 THEN 0
                    ELSE IF a[i] < b[i] THEN -1
                    ELSE IF a[i] > b[i] THEN 1
                    ELSE CmpFrom(a, b, i - 1)

\* -1, 0, 1 as a < b, a = b, a > b (std::cmp::Ordering)
Cmp(a, b) == IF Len(a) < Len(b) THEN -1
             ELSE IF Len(a) > Len(b) THEN 1
             ELSE CmpFrom(a, b, Len(a))

Lt(a, b) == Cmp(a, b) < 0
Le(a, b) == Cmp(a, b) <= 0

RECURSIVE AddFrom(_, _, _, _)
AddFrom(a, b, i, c) ==
    IF i > Len(a) /\ i > Len(b)
    THEN (IF c = 0 THEN <<>> ELSE <<c>>)
    ELSE LET s == Limb(a, i) + Limb(b, i) + c
         IN  <<s % Base>> \o AddFrom(a, b, i + 1, s \div Base)

Add(a, b) == IF a = <<>> THEN b ELSE IF b = <<>> THEN a ELSE AddFrom(a, b, 1, 0)

RECURSIVE SubFrom(_, _, _, _)
SubFrom(a, b, i, c) ==
    IF i > Len(a) THEN <<>>
    ELSE LET d == a[i] - Limb(b, i) - c
         IN  IF d < 0 THEN <<d + Base>> \o SubFrom(a, b, i + 1, 1)
             ELSE <<d>> \o SubFrom(a, b, i + 1, 0)

\* a - b for b <= a
Sub(a, b) == IF b = <<>> THEN a ELSE Norm(SubFrom(a, b, 1, 0))

RECURSIVE MulSmallFrom(_, _, _, _)
MulSmallFrom(a, d, i, c) ==
    IF i > Len(a) THEN (IF c = 0 THEN <<>> ELSE <<c>>)
    ELSE LET p == a[i] * d + c
         IN  <<p % Base>> \o MulSmallFrom(a, d, i + 1, p \div Base)

\* a * d for a limb d
MulSmall(a, d) == IF d = 0 \/ a = <<>> THEN <<>>
                  ELSE IF d = 1 THEN a
                  ELSE MulSmallFrom(a, d, 1, 0)

\* a * Base
ShiftUp(a) == IF a = <<>> THEN <<>> ELSE <<0>> \o a

RECURSIVE MulFrom(_, _, _)
MulFrom(a, b, i) == IF i > Len(b) THEN <<>>
                    ELSE Add(MulSmall(a, b[i]), ShiftUp(MulFrom(a, b, i + 1)))

Mul(a, b) == IF a = <<>> \/ b = <<>> THEN <<>>
             ELSE IF Len(a) >= Len(b) THEN MulFrom(a, b, 1)
             ELSE MulFrom(b, a, 1)

RECURSIVE QDigit(_, _, _, _)
\* the largest q in lo..hi with b * q <= r (b * lo <= r is given)
QDigit(r, b, lo, hi) ==
    IF lo = hi THEN lo
    ELSE LET mid == (lo + hi + 1) \div 2
         IN  IF Le(MulSmall(b, mid), r) THEN QDigit(r, b, mid, hi)
             ELSE QDigit(r, b, lo, mid - 1)

RECURSIVE DivFrom(_, _, _, _, _)
\* the next limb of the quotient is d: the digit is computed before the
\* division moves on to the limb below
DivNext(a, b, i, q, r1, d) ==
    IF d < 0 THEN <<>>
    ELSE DivFrom(a, b, i - 1, <<d>> \o q, Sub(r1, MulSmall(b, d)))

\* r1 is the remainder so far with limb i of a brought down
DivStep(a, b, i, q, r1) ==
    DivNext(a, b, i, q, r1, IF Lt(r1, b) THEN 0 ELSE QDigit(r1, b, 1, Base - 1))

\* long division of a by b, from the most significant limb i down to limb 1,
\* with the quotient limbs q and the remainder r found so far
DivFrom(a, b, i, q, r) ==
    IF i = 0 THEN <<Norm(q), r>>
    ELSE DivStep(a, b, i, q, Norm(<<a[i]>> \o r))

\* floor(a / b) and a mod b for b > 0
DivMod(a, b) == IF Lt(a, b) THEN <<(<<>>), a>>
                ELSE DivFrom(a, b, Len(a), <<>>, <<>>)

Div(a, b) == DivMod(a, b)[1]

RECURSIVE Zeros(_)
Zeros(n) == IF n = 0 THEN <<>> ELSE <<0>> \o Zeros(n - 1)

\* 10^e, exact
Pow10(e) == Zeros(e \div 3) \o <<(IF e % 3 = 0 THEN 1 ELSE IF e % 3 = 1 THEN 10 ELSE 100)>>

\* ------------------------------------------------------------------------
\* Rust's checked u128 arithmetic (Option<u128>)
\* ------------------------------------------------------------------------
U128_MAX == BE(<<340, 282, 366, 920, 938, 463, 463, 374, 607, 431, 768, 211, 455>>)

Some(x) == [ok |-> TRUE, v |-> x]
None == [ok |-> FALSE, v |-> <<>>]

\* Some(x) when x fits 128 bits
in_u128(x) == IF Le(x, U128_MAX) THEN Some(x) ELSE None

\* x when it fits 128 bits, else u128::MAX
capped(x) == IF Le(x, U128_MAX) THEN x ELSE U128_MAX

checked_add(a, b) == in_u128(Add(a, b))

checked_sub(a, b) == IF Le(b, a) THEN Some(Sub(a, b)) ELSE None

checked_mul(a, b) == in_u128(Mul(a, b))

checked_div(a, b) == IF b = Zero THEN None ELSE Some(Div(a, b))

saturating_sub(a, b) == IF Le(b, a) THEN Sub(a, b) ELSE Zero

saturating_add(a, b) == capped(Add(a, b))

\* x?.checked_op(y?): the operation on two optional operands
try_add(x, y) == IF x.ok /\ y.ok THEN checked_add(x.v, y.v) ELSE None
try_sub(x, y) == IF x.ok /\ y.ok THEN checked_sub(x.v, y.v) ELSE None
try_mul(x, y) == IF x.ok /\ y.ok THEN checked_mul(x.v, y.v) ELSE None
try_div(x, y) == IF x.ok /\ y.ok THEN checked_div(x.v, y.v) ELSE None

\* The overflow-checks setting of the build profile the contract was
\* compiled with.  It decides what the unchecked 10u128.pow does when the
\* power does not fit: panic (TRUE) or wrap modulo 2^128 (FALSE).
VARIABLE overflow_checks

RECURSIVE wrapping_pow10(_)
\* 10^e modulo 2^128: the result of pow in a build without overflow checks.
\* 2^128 divides 10^128; below that, 10^e = 10^(e - 38) * 10^38, wrapped.
wrapping_pow10(e) ==
    IF e >= 128 THEN Zero
    ELSE IF e <= 38 THEN Pow10(e)
    ELSE DivMod(Mul(wrapping_pow10(e - 38), Pow10(38)), Add(U128_MAX, <<1>>))[2]

\* 10u128.pow(e).  Up to e = 38 the power fits.  A larger exponent overflows
\* the multiplication inside pow: with overflow checks that is the panic
\* "attempt to multiply with overflow", reported here as None (the call
\* aborts either way); without them pow returns the wrapped value.
pow10(e) ==
    IF e <= 38 THEN Some(Pow10(e))
    ELSE IF overflow_checks THEN None
    ELSE Some(wrapping_pow10(e))

\* ------------------------------------------------------------------------
\* price.rs: decimal conversion and price application
\* ------------------------------------------------------------------------
KT_DECIMALS == 18
MAX_U128_DECIMALS == 37
PRICE_DECIMALS == 18

\* ExchangePrice { multiplier, decimals }
ExchangePrice(m, d) == [multiplier |-> m, decimals |-> d]

convert_decimals(amount, from, to) ==
    IF from = to THEN Some(amount)
    ELSE IF from < to
         THEN LET p == pow10(to - from)
              IN  IF p.ok THEN checked_mul(amount, p.v) ELSE None
         ELSE LET p == pow10(from - to)
              IN  IF p.ok THEN checked_div(amount, p.v) ELSE None

try_convert_decimals(amount, from, to) ==
    IF amount.ok THEN convert_decimals(amount.v, from, to) ELSE None

\* exchange_asset_to_kt dividing by the multiplier before scaling up
exchange_asset_to_kt_dividing_first(asset_amount, asset_decimals, price) ==
    IF price.decimals < asset_decimals THEN None
    ELSE try_mul(try_div(convert_decimals(asset_amount, asset_decimals, KT_DECIMALS),
                         Some(price.multiplier)),
                 pow10(price.decimals - asset_decimals))

exchange_asset_to_kt(asset_amount, asset_decimals, price) ==
    IF price.decimals < asset_decimals THEN None
    ELSE try_div(try_mul(convert_decimals(asset_amount, asset_decimals, KT_DECIMALS),
                         pow10(price.decimals - asset_decimals)),
                 Some(price.multiplier))

\* exchange_kt_to_asset rounding up: one more than the floor
exchange_kt_to_asset_rounding_up(amount, asset_decimals, price) ==
    IF price.decimals < asset_decimals THEN None
    ELSE try_add(try_convert_decimals(try_div(checked_mul(amount, price.multiplier),
                                              pow10(price.decimals - asset_decimals)),
                                      KT_DECIMALS, asset_decimals),
                 Some(<<1>>))

exchange_kt_to_asset(amount, asset_decimals, price) ==
    IF price.decimals < asset_decimals THEN None
    ELSE try_convert_decimals(try_div(checked_mul(amount, price.multiplier),
                                      pow10(price.decimals - asset_decimals)),
                              KT_DECIMALS, asset_decimals)

\* assert_price without the comparison of the decimals
assert_price_any_decimals(self, price) ==
    LET min == saturating_sub(self.multiplier, self.slippage)
        max == saturating_add(self.multiplier, self.slippage)
    IN  Le(min, price.multiplier) /\ Le(price.multiplier, max)

\* assert_price with the range taken without its ends
assert_price_exclusive(self, price) ==
    /\ self.decimals = price.decimals
    /\ Lt(saturating_sub(self.multiplier, self.slippage), price.multiplier)
    /\ Lt(price.multiplier, saturating_add(self.multiplier, self.slippage))

\* ExpectedPrice { multiplier, decimals, slippage }; TRUE iff neither require! fails
assert_price(self, price) ==
    /\ self.decimals = price.decimals
    /\ LET min == saturating_sub(self.multiplier, self.slippage)
           max == saturating_add(self.multiplier, self.slippage)
       IN  Le(min, price.multiplier) /\ Le(price.multiplier, max)

\* ------------------------------------------------------------------------
\* oracle.rs: the quote delivered by the price source
\* ------------------------------------------------------------------------
\* env::block_timestamp() at the time the continuation runs
block_timestamp == 0

\* PriceData { expiration, price: Option<Price { multiplier, decimals }> }
PriceData(expiration, price) == [expiration |-> expiration, price |-> price]

\* from_price_data without the expiration check
from_price_data_ignoring_expiration(asset, data) ==
    IF ~data.price.ok
    THEN [ok |-> FALSE, err |-> "Oracle price is missing"]
    ELSE IF data.price.v.decimals < asset.decimals
    THEN [ok |-> FALSE, err |-> "Oracle price wrong decimals"]
    ELSE IF data.price.v.multiplier = Zero
    THEN [ok |-> FALSE, err |-> "Oracle price is zero"]
    ELSE [ok |-> TRUE, err |-> "",
          v |-> ExchangePrice(data.price.v.multiplier,
                              data.price.v.decimals - asset.decimals)]

\* from_price_data returning the decimals of the quote as they came
from_price_data_keeping_decimals(asset, data) ==
    IF ~(block_timestamp < data.expiration)
    THEN [ok |-> FALSE, err |-> "Oracle price is outdated"]
    ELSE IF ~data.price.ok
    THEN [ok |-> FALSE, err |-> "Oracle price is missing"]
    ELSE IF data.price.v.decimals < asset.decimals
    THEN [ok |-> FALSE, err |-> "Oracle price wrong decimals"]
    ELSE IF data.price.v.multiplier = Zero
    THEN [ok |-> FALSE, err |-> "Oracle price is zero"]
    ELSE [ok |-> TRUE, err |-> "",
          v |-> ExchangePrice(data.price.v.multiplier, data.price.v.decimals)]

\* The result is Some(ExchangePrice) or None with the panic message in err.
from_price_data(asset, data) ==
    IF ~(block_timestamp < data.expiration)
    THEN [ok |-> FALSE, err |-> "Oracle price is outdated"]
    ELSE IF ~data.price.ok
    THEN [ok |-> FALSE, err |-> "Oracle price is missing"]
    ELSE IF data.price.v.decimals < asset.decimals
    THEN [ok |-> FALSE, err |-> "Oracle price wrong decimals"]
    ELSE IF data.price.v.multiplier = Zero
    THEN [ok |-> FALSE, err |-> "Oracle price is zero"]
    ELSE [ok |-> TRUE, err |-> "",
          v |-> ExchangePrice(data.price.v.multiplier,
                              data.price.v.decimals - asset.decimals)]

\* None stands for the panic "Oracle price to decimals overflow"
to_decimals(self) == convert_decimals(self.multiplier, self.decimals, PRICE_DECIMALS)

\* ------------------------------------------------------------------------
\* ft.rs: AccountBalance and FungibleToken
\* ------------------------------------------------------------------------
\* AccountBalance { amount, price }; Default is all zero
AccountBalance(amount, price) == [amount |-> amount, price |-> price]
AccountBalance_default == AccountBalance(Zero, Zero)

try_account(amount, price) ==
    IF price.ok THEN Some(AccountBalance(amount, price.v)) ELSE None

\* amount * |price - self.price| / balance, the step shared by the Less and
\* Greater arms of the weighted mean
WeightedStep(self, amount, price, balance) ==
    try_div(checked_mul(amount, IF Lt(self.price, price) THEN Sub(price, self.price)
                                ELSE Sub(self.price, price)),
            Some(balance))

\* self.price moved by the step, up or down
MovedPrice(self, step, up) ==
    IF up THEN try_add(Some(self.price), step) ELSE try_sub(Some(self.price), step)

\* the arms of match self.price.cmp(&price), for c = Cmp(self.price, price);
\* less_up: the arm of Less adds the step and the arm of Greater subtracts
\* it (checked_add), or the reverse (checked_sub)
WeightedPrice(self, amount, price, balance, c, less_up) ==
    IF c = 0 THEN Some(price)
    ELSE MovedPrice(self, WeightedStep(self, amount, price, balance), (c < 0) = less_up)

\* Some(Self { amount: balance, price })
Weighted(self, amount, price, balance, less_up) ==
    IF ~balance.ok THEN None
    ELSE try_account(balance.v,
                     WeightedPrice(self, amount, price, balance.v,
                                   Cmp(self.price, price), less_up))

\* checked_add taking the price of the deposit instead of the weighted mean
AccountBalance_checked_add_at_last_price(self, amount, price) ==
    try_account(Add(self.amount, amount), in_u128(price))

\* checked_add adding the price of the deposit to the price held
AccountBalance_checked_add_sum_of_prices(self, amount, price) ==
    try_account(Add(self.amount, amount), in_u128(Add(self.price, price)))

AccountBalance_checked_add(self, amount, price) ==
    Weighted(self, amount, price, checked_add(self.amount, amount), TRUE)

AccountBalance_checked_sub(self, amount, price) ==
    Weighted(self, amount, price, checked_sub(self.amount, amount), FALSE)

\* A map (LookupMap, UnorderedMap) is a function whose domain is the keys
\* inserted so far.
Insert(map, key, value) ==
    [k \in (DOMAIN map) \cup {key} |-> IF k = key THEN value ELSE map[k]]

\* FungibleToken { accounts, total_supply }
FungibleToken(accounts, supply) == [accounts |-> accounts, total_supply |-> supply]

internal_unwrap_balance_of(token, account_id) ==
    IF account_id \in DOMAIN token.accounts THEN token.accounts[account_id]
    ELSE AccountBalance_default

\* ft_balance_of returning the weighted price of the holder
ft_balance_of_price(token, account_id) ==
    internal_unwrap_balance_of(token, account_id).price

\* a view: &self
ft_balance_of(token, account_id) ==
    internal_unwrap_balance_of(token, account_id).amount

\* The internal_* operations return [ok, token]; ok = FALSE is a panic.
\* accounts.insert(account_id, new_balance) and the new total supply, once
\* both are Some
updated(token, account_id, new_balance, supply) ==
    IF new_balance.ok /\ supply.ok
    THEN [ok |-> TRUE,
          token |-> FungibleToken(Insert(token.accounts, account_id, new_balance.v),
                                  supply.v)]
    ELSE [ok |-> FALSE, token |-> token]

internal_deposit(token, account_id, amount, price) ==
    updated(token, account_id,
            AccountBalance_checked_add(internal_unwrap_balance_of(token, account_id),
                                       amount, price),
            checked_add(token.total_supply, amount))

internal_withdraw(token, account_id, amount, price) ==
    updated(token, account_id,
            AccountBalance_checked_sub(internal_unwrap_balance_of(token, account_id),
                                       amount, price),
            checked_sub(token.total_supply, amount))

\* the result d of the last step of an operation on token
or_panic(token, d) == IF d.ok THEN d ELSE [ok |-> FALSE, token |-> token]

\* the withdrawal w kept when the deposit that follows it fails
deposit_after_keeping_withdrawal(token, w, receiver_id, amount, price) ==
    IF ~w.ok THEN [ok |-> FALSE, token |-> token]
    ELSE IF internal_deposit(w.token, receiver_id, amount, price).ok
    THEN internal_deposit(w.token, receiver_id, amount, price)
    ELSE w

\* the deposit that follows the withdrawal w
deposit_after(token, w, receiver_id, amount, price) ==
    IF ~w.ok THEN [ok |-> FALSE, token |-> token]
    ELSE or_panic(token, internal_deposit(w.token, receiver_id, amount, price))

internal_transfer(token, sender_id, receiver_id, amount, price) ==
    IF sender_id = receiver_id \/ amount = Zero
    THEN [ok |-> FALSE, token |-> token]
    ELSE deposit_after(token, internal_withdraw(token, sender_id, amount, price),
                       receiver_id, amount, price)

MinB(a, b) == IF Le(a, b) THEN a ELSE b

\* x, at most 2 * u128::MAX, as a sum of two u128 that wrapped holds it
wrapped(x) == IF Le(x, U128_MAX) THEN x ELSE Sub(x, Add(U128_MAX, <<1>>))

\* The outcome of the receiver's ft_on_transfer as the resolver sees it:
\* [kind |-> "Failed"], [kind |-> "Successful", parsed |-> BOOLEAN, unused |-> u128]
unused_amount_of(amount, result) ==
    IF result.kind = "Successful" /\ result.parsed THEN MinB(amount, result.unused)
    ELSE amount

\* if let Some(balance) = ... { accounts.insert(account_id, balance) }
insert_some(accs, account_id, balance) ==
    IF balance.ok THEN Insert(accs, account_id, balance.v) ELSE accs

\* The refund of the sender, once the receiver's balance has been reduced
\* (accounts acc1): sender_balance.checked_add(arg, price) with
\* arg = sender_balance.amount + refund_amount, kept only when it is Some.
\* The unchecked sum panics on overflow in a build with overflow checks and
\* wraps in a build without.
refund_sender(token, acc1, sender_id, amount, refund_amount, price, arg) ==
    IF ~Le(arg, U128_MAX) /\ overflow_checks
    THEN [ok |-> FALSE, token |-> token, used |-> Zero, burned |-> Zero]
    ELSE [ok |-> TRUE,
          token |-> FungibleToken(
                        insert_some(acc1, sender_id,
                                    AccountBalance_checked_add(acc1[sender_id],
                                                               wrapped(arg), price)),
                        token.total_supply),
          used |-> Sub(amount, refund_amount), burned |-> Zero]

\* The sender's account is gone: the refund is burned (total_supply -=
\* refund_amount, unchecked).
burn_refund(token, acc1, amount, refund_amount) ==
    IF ~Le(refund_amount, token.total_supply) /\ overflow_checks
    THEN [ok |-> FALSE, token |-> token, used |-> Zero, burned |-> Zero]
    ELSE [ok |-> TRUE,
          token |-> FungibleToken(acc1,
                                  IF Le(refund_amount, token.total_supply)
                                  THEN Sub(token.total_supply, refund_amount)
                                  ELSE Sub(Add(token.total_supply, Add(U128_MAX, <<1>>)),
                                           refund_amount)),
          used |-> amount, burned |-> refund_amount]

\* the branch on the sender's account, with the receiver's balance reduced
refund(token, acc1, sender_id, amount, refund_amount, price) ==
    IF sender_id \in DOMAIN acc1
    THEN refund_sender(token, acc1, sender_id, amount, refund_amount, price,
                       Add(acc1[sender_id].amount, refund_amount))
    ELSE burn_refund(token, acc1, amount, refund_amount)

\* the receiver gives back refund_amount
take_back(token, sender_id, receiver_id, amount, price, receiver_balance, refund_amount) ==
    refund(token,
           insert_some(token.accounts, receiver_id,
                       AccountBalance_checked_sub(receiver_balance, refund_amount, price)),
           sender_id, amount, refund_amount, price)

resolve_unused(token, sender_id, receiver_id, amount, price, unused_amount, receiver_balance) ==
    IF unused_amount = Zero \/ receiver_balance.amount = Zero
    THEN [ok |-> TRUE, token |-> token, used |-> amount, burned |-> Zero]
    ELSE take_back(token, sender_id, receiver_id, amount, price, receiver_balance,
                   MinB(receiver_balance.amount, unused_amount))

\* Returns [ok, token, used, burned].
internal_ft_resolve_transfer(token, sender_id, receiver_id, amount, price, result) ==
    resolve_unused(token, sender_id, receiver_id, amount, price,
                   unused_amount_of(amount, result),
                   internal_unwrap_balance_of(token, receiver_id))

\* ------------------------------------------------------------------------
\* treasury.rs: AssetInfo and Treasury (the assets map)
\* ------------------------------------------------------------------------
AssetInfo(decimals, balance, status) ==
    [decimals |-> decimals, balance |-> balance, status |-> status]

\* AssetInfo::new without the bounds of decimals
AssetInfo_new_any_decimals(decimals) == Some(AssetInfo(decimals, Zero, "Enabled"))

\* AssetInfo::new: None is the panic "Decimal value is out of bounds"
AssetInfo_new(decimals) ==
    IF decimals > 0 /\ decimals <= MAX_U128_DECIMALS
    THEN Some(AssetInfo(decimals, Zero, "Enabled"))
    ELSE None

assert_asset(assets, asset_id) ==
    IF asset_id \in DOMAIN assets THEN Some(assets[asset_id]) ELSE None

\* assert_asset_status without the comparison of the status
assert_asset_status_any_status(assets, asset_id, status) ==
    assert_asset(assets, asset_id)

assert_asset_status(assets, asset_id, status) ==
    LET asset == assert_asset(assets, asset_id)
    IN  IF asset.ok /\ asset.v.status = status THEN asset ELSE None

\* set_asset_status writing a new AssetInfo with the status
set_asset_status_new_info(assets, asset_id, status) ==
    IF asset_id \notin DOMAIN assets THEN [ok |-> FALSE, assets |-> assets]
    ELSE [ok |-> TRUE,
          assets |-> Insert(assets, asset_id,
                            AssetInfo(assets[asset_id].decimals, Zero, status))]

\* set_asset_status writing the status and one more decimal
set_asset_status_more_decimals(assets, asset_id, status) ==
    IF asset_id \notin DOMAIN assets THEN [ok |-> FALSE, assets |-> assets]
    ELSE [ok |-> TRUE,
          assets |-> Insert(assets, asset_id,
                            AssetInfo(assets[asset_id].decimals + 1,
                                      assets[asset_id].balance, status))]

\* The Treasury operations return [ok, assets]; ok = FALSE is a panic.
set_asset_status(assets, asset_id, status) ==
    IF asset_id \notin DOMAIN assets THEN [ok |-> FALSE, assets |-> assets]
    ELSE [ok |-> TRUE,
          assets |-> Insert(assets, asset_id, [assets[asset_id] EXCEPT !.status = status])]

Treasury_enable_asset(assets, asset_id) ==
    IF assert_asset_status(assets, asset_id, "Disabled").ok
    THEN set_asset_status(assets, asset_id, "Enabled")
    ELSE [ok |-> FALSE, assets |-> assets]

\* disable_asset without the assertion of the current status
Treasury_disable_asset_idempotent(assets, asset_id) ==
    set_asset_status(assets, asset_id, "Disabled")

Treasury_disable_asset(assets, asset_id) ==
    IF assert_asset_status(assets, asset_id, "Enabled").ok
    THEN set_asset_status(assets, asset_id, "Disabled")
    ELSE [ok |-> FALSE, assets |-> assets]

Treasury_add_asset(assets, asset_id, decimals) ==
    LET asset == AssetInfo_new(decimals)
    IN  IF asset_id \notin DOMAIN assets /\ asset.ok
        THEN [ok |-> TRUE, assets |-> Insert(assets, asset_id, asset.v)]
        ELSE [ok |-> FALSE, assets |-> assets]

\* asset.balance = new_balance, once it is Some
with_balance(assets, asset_id, new_balance) ==
    IF new_balance.ok
    THEN [ok |-> TRUE,
          assets |-> Insert(assets, asset_id,
                            [assets[asset_id] EXCEPT !.balance = new_balance.v])]
    ELSE [ok |-> FALSE, assets |-> assets]

Treasury_internal_deposit(assets, asset_id, amount) ==
    IF asset_id \notin DOMAIN assets THEN [ok |-> FALSE, assets |-> assets]
    ELSE with_balance(assets, asset_id, checked_add(assets[asset_id].balance, amount))

\* internal_withdraw with a saturating subtraction
Treasury_internal_withdraw_saturating(assets, asset_id, amount) ==
    IF asset_id \notin DOMAIN assets THEN [ok |-> FALSE, assets |-> assets]
    ELSE with_balance(assets, asset_id,
                      Some(saturating_sub(assets[asset_id].balance, amount)))

Treasury_internal_withdraw(assets, asset_id, amount) ==
    IF asset_id \notin DOMAIN assets THEN [ok |-> FALSE, assets |-> assets]
    ELSE with_balance(assets, asset_id, checked_sub(assets[asset_id].balance, amount))

\* ------------------------------------------------------------------------
\* lib.rs: the contract.  A call works on the ledger state
\* st = [assets, token] and returns [ok, st, ret]; ok = FALSE is a panic,
\* after which the runtime discards every write of the call.
\* ------------------------------------------------------------------------
Panic(st) == [ok |-> FALSE, st |-> st, ret |-> Zero]

\* The price handed to token.internal_deposit / internal_withdraw by
\* internal_buy, internal_sell and resolve_sell: the quote, in the ledger's
\* fixed-point base.
token_price(price) == to_decimals(price)

\* internal_buy, from the token deposit d of the converted amount kt
buy_minted(st1, kt, d) ==
    IF ~d.ok THEN Panic(st1)
    ELSE [ok |-> TRUE, st |-> [st1 EXCEPT !.token = d.token], ret |-> kt]

\* internal_buy, from the conversion: kt is the native amount and lp the
\* price for the ledger
buy_converted(st1, account_id, kt, lp) ==
    IF ~kt.ok \/ ~lp.ok THEN Panic(st1)
    ELSE buy_minted(st1, kt.v, internal_deposit(st1.token, account_id, kt.v, lp.v))

\* internal_buy, from the treasury deposit t
buy_deposited(st, account_id, amount, decimals, price, t) ==
    IF ~t.ok THEN Panic(st)
    ELSE buy_converted([st EXCEPT !.assets = t.assets], account_id,
                       exchange_asset_to_kt(amount, decimals, price), token_price(price))

\* the treasury deposit t kept although the buy res panicked
deposit_kept(st, t, res) ==
    IF res.ok \/ ~t.ok THEN res
    ELSE [ok |-> TRUE, st |-> [st EXCEPT !.assets = t.assets], ret |-> Zero]

\* internal_buy returning after the treasury deposit when a later step
\* fails, instead of panicking
internal_buy_keeping_deposit(st, account_id, asset_id, amount, price) ==
    LET asset == assert_asset_status(st.assets, asset_id, "Enabled")
    IN  IF ~asset.ok THEN Panic(st)
        ELSE deposit_kept(st, Treasury_internal_deposit(st.assets, asset_id, amount),
                          buy_deposited(st, account_id, amount, asset.v.decimals, price,
                                        Treasury_internal_deposit(st.assets, asset_id,
                                                                  amount)))

internal_buy(st, account_id, asset_id, amount, price) ==
    LET asset == assert_asset_status(st.assets, asset_id, "Enabled")
    IN  IF ~asset.ok THEN Panic(st)
        ELSE buy_deposited(st, account_id, amount, asset.v.decimals, price,
                           Treasury_internal_deposit(st.assets, asset_id, amount))

\* internal_sell, from the treasury withdrawal t of asset_amount
sell_paid(st1, asset_amount, t) ==
    IF ~t.ok THEN Panic(st1)
    ELSE [ok |-> TRUE, st |-> [st1 EXCEPT !.assets = t.assets], ret |-> asset_amount]

\* the conversion of internal_sell returning with the native amount
\* withdrawn when it fails, instead of panicking
sell_converted_keeping_burn(st1, asset_id, asset_amount) ==
    IF ~asset_amount.ok THEN [ok |-> TRUE, st |-> st1, ret |-> Zero]
    ELSE sell_paid(st1, asset_amount.v,
                   Treasury_internal_withdraw(st1.assets, asset_id, asset_amount.v))

\* internal_sell, from the conversion
sell_converted(st1, asset_id, asset_amount) ==
    IF ~asset_amount.ok THEN Panic(st1)
    ELSE sell_paid(st1, asset_amount.v,
                   Treasury_internal_withdraw(st1.assets, asset_id, asset_amount.v))

\* internal_sell, from the token withdrawal w
sell_burned(st, asset_id, decimals, amount, price, w) ==
    IF ~w.ok THEN Panic(st)
    ELSE sell_converted([st EXCEPT !.token = w.token], asset_id,
                        exchange_kt_to_asset(amount, decimals, price))

\* internal_sell, from the price lp for the ledger
sell_priced(st, account_id, asset_id, amount, price, asset, lp) ==
    IF ~asset.ok \/ ~lp.ok THEN Panic(st)
    ELSE sell_burned(st, asset_id, asset.v.decimals, amount, price,
                     internal_withdraw(st.token, account_id, amount, lp.v))

\* the pool of st kept in the result of a sell
pool_kept(st, res) == IF res.ok THEN [res EXCEPT !.st.assets = st.assets] ELSE res

\* internal_sell without the treasury withdrawal
internal_sell_keeping_pool(st, account_id, asset_id, amount, price) ==
    pool_kept(st, sell_priced(st, account_id, asset_id, amount, price,
                              assert_asset_status(st.assets, asset_id, "Enabled"),
                              token_price(price)))

internal_sell(st, account_id, asset_id, amount, price) ==
    sell_priced(st, account_id, asset_id, amount, price,
                assert_asset_status(st.assets, asset_id, "Enabled"),
                token_price(price))

\* The result of the price source's promise as a continuation sees it:
\* [kind |-> "Failed"] or [kind |-> "Successful", data |-> PriceData].
\* price.into() of the two continuations: #[callback_unwrap] panics on a
\* failed promise, and the quote is converted for the request's asset.
price_into(st, asset_id, promise) ==
    LET asset == assert_asset(st.assets, asset_id)
    IN  IF promise.kind # "Successful" \/ ~asset.ok
        THEN [ok |-> FALSE, err |-> "callback_unwrap"]
        ELSE from_price_data(asset.v, promise.data)

\* The slippage bound of a Buy(Some(expected)) message, applied to the
\* converted quote before internal_buy.
expected_price_ok(expected, price) == ~expected.ok \/ assert_price(expected.v, price)

buy_with_price_call(st, account_id, asset_id, amount, expected, promise) ==
    LET price == price_into(st, asset_id, promise)
    IN  IF ~price.ok THEN Panic(st)
        ELSE IF ~expected_price_ok(expected, price.v) THEN Panic(st)
        ELSE internal_buy(st, account_id, asset_id, amount, price.v)

sell_with_price_call(st, account_id, asset_id, amount, promise) ==
    LET price == price_into(st, asset_id, promise)
    IN  IF ~price.ok THEN Panic(st)
        ELSE internal_sell(st, account_id, asset_id, amount, price.v)

\* resolve_sell, from the token deposit d after the treasury deposit t
compensated(st, t, d) ==
    IF ~d.ok THEN Panic(st)
    ELSE [ok |-> TRUE, st |-> [assets |-> t.assets, token |-> d.token], ret |-> Zero]

\* resolve_sell after a failed transfer, from the treasury deposit t and the
\* price lp for the ledger
compensate(st, account_id, amount, t, lp) ==
    IF ~t.ok \/ ~lp.ok THEN Panic(st)
    ELSE compensated(st, t, internal_deposit(st.token, account_id, amount, lp.v))

\* result is "Successful" or "Failed" (the remote ft_transfer)
resolve_sell_call(st, account_id, amount, asset_id, asset_amount, price, result) ==
    IF result = "Successful" THEN [ok |-> TRUE, st |-> st, ret |-> Zero]
    ELSE compensate(st, account_id, amount,
                    Treasury_internal_deposit(st.assets, asset_id, asset_amount),
                    token_price(price))

\* ------------------------------------------------------------------------
\* Inputs of the model
\* ------------------------------------------------------------------------
\* At most MaxRequests requests (buys, sells, transfers, transfer calls)
\* are accepted.
MaxRequests == 2

Owner == "owner"
AccountIds == {"alice", "bob"}
Callers == {Owner, "alice"}
NewOwners == {Owner, "alice"}
Buyers == {"alice"}
Sellers == {"alice"}
AssetIds == {"usdc"}
\* add_asset arguments: 0 is out of bounds, 6 is the decimals of the tests
AssetDecimals == {0, 6}

Price(m, d) == [multiplier |-> m, decimals |-> d]
NoPrice == [ok |-> FALSE, v |-> Price(Zero, 0)]

\* Results of the price source's promise.  A quote of the source carries the
\* asset's decimals on top of the exchange decimals.
Q10001 == BE(<<10, 1>>)
Q10000 == BE(<<10, 0>>)
QHuge == Pow10(17)
OracleResult(kind, data) == [kind |-> kind, data |-> data]
OracleFailed == OracleResult("Failed", PriceData(0, NoPrice))
OracleResults ==
    { OracleFailed,
      OracleResult("Successful", PriceData(0, Some(Price(Q10001, 16)))),
      OracleResult("Successful", PriceData(1, NoPrice)),
      OracleResult("Successful", PriceData(1, Some(Price(Zero, 16)))),
      OracleResult("Successful", PriceData(1, Some(Price(Q10001, 5)))),
      OracleResult("Successful", PriceData(1, Some(Price(Q10001, 10)))),
      OracleResult("Successful", PriceData(1, Some(Price(Q10001, 16)))),
      OracleResult("Successful", PriceData(1, Some(Price(Q10000, 16)))),
      OracleResult("Successful", PriceData(1, Some(Price(QHuge, 16)))) }

\* ExpectedPrice of a Buy message
ExpectedPrice(m, d, s) == [multiplier |-> m, decimals |-> d, slippage |-> s]
NoExpected == [ok |-> FALSE, v |-> ExpectedPrice(Zero, 0, Zero)]
\* no bound; exactly Q10001 with the decimals of a converted quote; Q10000
\* give or take 1 with other decimals
Expecteds ==
    { NoExpected,
      Some(ExpectedPrice(Q10001, 10, Zero)),
      Some(ExpectedPrice(Q10000, 4, BE(<<1>>))) }
\* the "expected" argument the callers of sell send (tests/workspaces.rs)
SellExpecteds == {NoExpected, Some(ExpectedPrice(Q10001, 10, Zero))}

\* 1_000_000 (one unit of a 6-decimals asset), 10^27 (its native equivalent
\* does not fit 128 bits) and 1 (its native equivalent at QHuge is zero)
BuyAmounts == {BE(<<1, 0, 0>>), Pow10(27), BE(<<1>>)}
\* the native equivalent of 1_000_000 at Q10001, and one less
Bought == BE(<<999, 900, 9, 999, 0, 99>>)
SellAmounts == {Bought, Sub(Bought, BE(<<1>>))}
TransferAmounts == {BE(<<1>>)}

\* Results of the remote ft_transfer of a sell
TransferResult(kind) == [kind |-> kind, parsed |-> FALSE, unused |-> Zero]
TransferResults == {TransferResult("Successful"), TransferResult("Failed")}

\* Results of the receiver's ft_on_transfer of a transfer call
ReceiverResult(kind, parsed, unused) == [kind |-> kind, parsed |-> parsed, unused |-> unused]
ReceiverResults ==
    { ReceiverResult("Failed", FALSE, Zero),
      ReceiverResult("Successful", TRUE, Zero),
      ReceiverResult("Successful", TRUE, BE(<<1>>)) }

\* ------------------------------------------------------------------------
\* The contract as a state machine
\* ------------------------------------------------------------------------
VARIABLES
    owner_id,      \* Contract.owner_id
    assets,        \* Contract.treasury.assets: AssetId -> AssetInfo
    accounts,      \* Contract.token.accounts: AccountId -> AccountBalance
    total_supply,  \* Contract.token.total_supply
    reqs           \* the requests started so far and their promise chains

vars == <<overflow_checks, owner_id, assets, accounts, total_supply, reqs>>

Empty == [k \in {} |-> Zero]
State == [assets |-> assets, token |-> FungibleToken(accounts, total_supply)]

\* The runtime keeps the writes of a call that returned and discards the
\* writes of a call that panicked.
Store(res) ==
    LET st == IF res.ok THEN res.st ELSE State
    IN  /\ assets' = st.assets
        /\ accounts' = st.token.accounts
        /\ total_supply' = st.token.total_supply

NoSnapshot == [amount |-> Zero, pool |-> Zero]
NoQuote == ExchangePrice(Zero, 0)

\* A request: the arguments its promise chain carries, the position of the
\* chain, and its history: the promise result each continuation received,
\* how many times each continuation ran, how many times the commit was
\* applied and the remote transfer issued, and the holder's amount and the
\* pool as the sell commit found them.
Request(kind, account_id, peer_id, amount, expected) ==
    [kind |-> kind, state |-> "QuoteRequested",
     account_id |-> account_id, peer_id |-> peer_id, amount |-> amount,
     expected |-> expected, asset_amount |-> Zero, price |-> NoQuote,
     promise |-> OracleFailed, result |-> ReceiverResult("NotReady", FALSE, Zero),
     quote_runs |-> 0, resolve_runs |-> 0, commits |-> 0, transfers |-> 0,
     pre |-> NoSnapshot, used |-> Zero]

Init ==
    /\ overflow_checks \in BOOLEAN
    /\ owner_id = Owner
    /\ assets = Empty
    /\ accounts = Empty
    /\ total_supply = Zero
    /\ reqs = <<>>

\* ---- owner.rs, treasury.rs: administration ----
\* set_owner without assert_owner
set_owner_by_anyone(caller, new_owner) ==
    /\ owner_id' = new_owner
    /\ UNCHANGED <<overflow_checks, assets, accounts, total_supply, reqs>>

set_owner(caller, new_owner) ==
    /\ owner_id' = IF caller = owner_id THEN new_owner ELSE owner_id
    /\ UNCHANGED <<overflow_checks, assets, accounts, total_supply, reqs>>

Admin(caller, res) ==
    /\ assets' = IF caller = owner_id /\ res.ok THEN res.assets ELSE assets
    /\ UNCHANGED <<overflow_checks, owner_id, accounts, total_supply, reqs>>

add_asset(caller, asset_id, decimals) ==
    Admin(caller, Treasury_add_asset(assets, asset_id, decimals))

disable_asset(caller, asset_id) ==
    Admin(caller, Treasury_disable_asset(assets, asset_id))

enable_asset(caller, asset_id) ==
    Admin(caller, Treasury_enable_asset(assets, asset_id))

\* ---- ft.rs: ft_on_transfer starts a buy ----
\* msg_ok: the message parses as OnTransferMessage
ft_on_transfer(asset_id, sender_id, amount, gas_ok, msg_ok, expected) ==
    LET ok == gas_ok /\ msg_ok /\ assert_asset_status(assets, asset_id, "Enabled").ok
    IN  /\ Len(reqs) < MaxRequests
        /\ reqs' = IF ok THEN Append(reqs, Request("buy", sender_id, asset_id, amount, expected))
                   ELSE reqs
        /\ UNCHANGED <<overflow_checks, owner_id, assets, accounts, total_supply>>

\* buy_with_price whose request stays scheduled after it ran
buy_with_price_left_scheduled(r, promise) ==
    LET req == reqs[r]
    IN  /\ req.kind = "buy" /\ req.state = "QuoteRequested"
        /\ \E res \in {buy_with_price_call(State, req.account_id, req.peer_id, req.amount,
                                           req.expected, promise)} :
           /\ Store(res)
           /\ reqs' = [reqs EXCEPT ![r] =
                         [req EXCEPT !.promise = promise,
                                     !.quote_runs = @ + 1,
                                     !.commits = IF res.ok THEN @ + 1 ELSE @]]
           /\ UNCHANGED <<overflow_checks, owner_id>>

\* ---- lib.rs: buy_with_price, the continuation of a buy ----
buy_with_price(r, promise) ==
    LET req == reqs[r]
    IN  /\ req.kind = "buy" /\ req.state = "QuoteRequested"
        /\ \E res \in {buy_with_price_call(State, req.account_id, req.peer_id, req.amount,
                                           req.expected, promise)} :
           /\ Store(res)
           /\ reqs' = [reqs EXCEPT ![r] =
                         [req EXCEPT !.state = IF res.ok THEN "Committed" ELSE "Aborted",
                                     !.promise = promise,
                                     !.quote_runs = @ + 1,
                                     !.commits = IF res.ok THEN @ + 1 ELSE @]]
           /\ UNCHANGED <<overflow_checks, owner_id>>

\* ---- lib.rs: sell ----
\* sell takes asset_id and amount only: an "expected" argument of the call
\* is dropped when the arguments are parsed, and is not handed to
\* sell_with_price.  The request remembers it as what the caller sent.
sell(caller, asset_id, amount, expected, one_yocto, gas_ok) ==
    LET ok == one_yocto /\ gas_ok /\ assert_asset_status(assets, asset_id, "Enabled").ok
    IN  /\ Len(reqs) < MaxRequests
        /\ reqs' = IF ok THEN Append(reqs, Request("sell", caller, asset_id, amount, expected))
                   ELSE reqs
        /\ UNCHANGED <<overflow_checks, owner_id, assets, accounts, total_supply>>

\* ---- lib.rs: sell_with_price, the continuation of a sell ----
\* On success it issues the remote ft_transfer of asset_amount and schedules
\* resolve_sell with the arguments stored in the request.
sell_with_price(r, promise) ==
    LET req   == reqs[r]
        price == price_into(State, req.peer_id, promise)
    IN  /\ req.kind = "sell" /\ req.state = "QuoteRequested"
        /\ \E res \in {sell_with_price_call(State, req.account_id, req.peer_id, req.amount,
                                            promise)} :
           /\ Store(res)
           /\ reqs' = [reqs EXCEPT ![r] =
                         IF res.ok
                         THEN [req EXCEPT !.state = "RemoteTransferRequested",
                                          !.promise = promise,
                                          !.quote_runs = @ + 1,
                                          !.commits = @ + 1,
                                          !.transfers = @ + 1,
                                          !.asset_amount = res.ret,
                                          !.price = price.v,
                                          !.pre = [amount |-> internal_unwrap_balance_of(
                                                                State.token, req.account_id).amount,
                                                   pool |-> assets[req.peer_id].balance]]
                         ELSE [req EXCEPT !.state = "Aborted",
                                          !.promise = promise,
                                          !.quote_runs = @ + 1]]
           /\ UNCHANGED <<overflow_checks, owner_id>>

\* ---- lib.rs: resolve_sell, the continuation of the remote transfer ----
resolve_sell(r, result) ==
    LET req == reqs[r]
    IN  /\ req.kind = "sell" /\ req.state = "RemoteTransferRequested"
        /\ \E res \in {resolve_sell_call(State, req.account_id, req.amount, req.peer_id,
                                         req.asset_amount, req.price, result.kind)} :
           /\ Store(res)
           /\ reqs' = [reqs EXCEPT ![r] =
                         [req EXCEPT !.state = IF ~res.ok THEN "CompensationFailed"
                                               ELSE IF result.kind = "Successful" THEN "Settled"
                                               ELSE "Reverted",
                                     !.result = result,
                                     !.resolve_runs = @ + 1]]
           /\ UNCHANGED <<overflow_checks, owner_id>>

\* ---- ft.rs: ft_transfer, ft_transfer_call, ft_resolve_transfer ----
\* let price = 0 in both transfer entry points
TransferPrice == Zero

\* the outcome t of a ledger operation as the result of a call that needs
\* the attached deposit and gas to be accepted
LedgerCall(t, accepted) ==
    [ok |-> accepted /\ t.ok, st |-> [assets |-> assets, token |-> t.token], ret |-> Zero]

ft_transfer(sender_id, receiver_id, amount, one_yocto) ==
    /\ Len(reqs) < MaxRequests
    /\ \E res \in {LedgerCall(internal_transfer(State.token, sender_id, receiver_id,
                                                amount, TransferPrice), one_yocto)} :
       /\ Store(res)
       /\ reqs' = IF res.ok
                  THEN Append(reqs, [Request("transfer", sender_id, receiver_id,
                                             amount, NoExpected)
                                     EXCEPT !.state = "Transferred"])
                  ELSE reqs
       /\ UNCHANGED <<overflow_checks, owner_id>>

ft_transfer_call(sender_id, receiver_id, amount, one_yocto, gas_ok) ==
    /\ Len(reqs) < MaxRequests
    /\ \E res \in {LedgerCall(internal_transfer(State.token, sender_id, receiver_id,
                                                amount, TransferPrice),
                              one_yocto /\ gas_ok)} :
       /\ Store(res)
       /\ reqs' = IF res.ok
                  THEN Append(reqs, [Request("transfer_call", sender_id, receiver_id,
                                             amount, NoExpected)
                                     EXCEPT !.state = "TransferRequested"])
                  ELSE reqs
       /\ UNCHANGED <<overflow_checks, owner_id>>

ft_resolve_transfer(r, result) ==
    LET req == reqs[r]
    IN  /\ req.kind = "transfer_call" /\ req.state = "TransferRequested"
        /\ \E t \in {internal_ft_resolve_transfer(
                         State.token, req.account_id, req.peer_id,
                         req.amount, TransferPrice, result)} :
           /\ Store(LedgerCall(t, TRUE))
           /\ reqs' = [reqs EXCEPT ![r] =
                         [req EXCEPT !.state = "Resolved",
                                     !.result = result,
                                     !.resolve_runs = @ + 1,
                                     !.used = t.used]]
           /\ UNCHANGED <<overflow_checks, owner_id>>

Rids == 1 .. Len(reqs)

Next ==
    \/ \E c \in Callers, o \in NewOwners : set_owner(c, o)
    \/ \E c \in Callers, a \in AssetIds, d \in AssetDecimals : add_asset(c, a, d)
    \/ \E c \in Callers, a \in AssetIds : disable_asset(c, a)
    \/ \E c \in Callers, a \in AssetIds : enable_asset(c, a)
    \/ \E a \in AssetIds, s \in Buyers, n \in BuyAmounts, g \in BOOLEAN,
          m \in BOOLEAN, e \in Expecteds : ft_on_transfer(a, s, n, g, m, e)
    \/ \E r \in Rids, p \in OracleResults : buy_with_price(r, p)
    \/ \E c \in Sellers, a \in AssetIds, n \in SellAmounts, e \in SellExpecteds,
          y \in BOOLEAN, g \in BOOLEAN : sell(c, a, n, e, y, g)
    \/ \E r \in Rids, p \in OracleResults : sell_with_price(r, p)
    \/ \E r \in Rids, t \in TransferResults : resolve_sell(r, t)
    \/ \E s \in AccountIds, t \in AccountIds, n \in TransferAmounts, y \in BOOLEAN :
          ft_transfer(s, t, n, y)
    \/ \E s \in AccountIds, t \in AccountIds, n \in TransferAmounts, y \in BOOLEAN,
          g \in BOOLEAN : ft_transfer_call(s, t, n, y, g)
    \/ \E r \in Rids, t \in ReceiverResults : ft_resolve_transfer(r, t)

Spec == Init /\ [][Next]_vars

\* ------------------------------------------------------------------------
\* Properties
\* ------------------------------------------------------------------------
One == BE(<<1>>)
Million == BE(<<1, 0, 0>>)

\* The amount a holder owns (ft_balance_of), in a given accounts map
AmountIn(accs, account_id) ==
    IF account_id \in DOMAIN accs THEN accs[account_id].amount ELSE Zero

RECURSIVE SumAmounts(_, _)
SumAmounts(accs, ids) ==
    IF ids = {} THEN Zero
    ELSE LET id == CHOOSE x \in ids : TRUE
         IN  Add(accs[id].amount, SumAmounts(accs, ids \ {id}))

LedgerUnchanged ==
    /\ assets' = assets
    /\ accounts' = accounts
    /\ total_supply' = total_supply

\* This step ran a continuation of request r, which was in state from
Ran(r, kind, from) ==
    /\ reqs[r].kind = kind
    /\ reqs[r].state = from
    /\ reqs'[r].state # from

\* The quote of the price source converted for an asset of d decimals
\* (defined when the source's decimals are at least d)
QuoteFor(data, d) == ExchangePrice(data.price.v.multiplier, data.price.v.decimals - d)

\* Exact values of the two conversions, in unbounded arithmetic, for an
\* asset of d <= 18 decimals and a quote of at least d decimals
AssetToNativeProduct(a, d, q) ==
    Mul(Mul(a, Pow10(KT_DECIMALS - d)), Pow10(q.decimals - d))
AssetToNative(a, d, q) == Div(AssetToNativeProduct(a, d, q), q.multiplier)
NativeToAsset(n, d, q) ==
    Div(Div(Mul(n, q.multiplier), Pow10(q.decimals - d)), Pow10(KT_DECIMALS - d))

\* C1: after any sequence of completed operations the total supply equals
\* the sum of the amounts of all holders.
C1_SupplyIsSumOfBalances ==
    total_supply = SumAmounts(accounts, DOMAIN accounts)

\* C2: when the remote transfer of a sell fails, resolve_sell leaves the
\* holder's native amount and the asset pool at the values the sell commit
\* found, provided nothing else touched them in between.
C2_FailedSellRestores ==
    [][\A r \in Rids :
        LET req == reqs[r]
        IN  ( /\ Ran(r, "sell", "RemoteTransferRequested")
              /\ reqs'[r].result.kind = "Failed"
              /\ Add(AmountIn(accounts, req.account_id), req.amount) = req.pre.amount
              /\ Add(assets[req.peer_id].balance, req.asset_amount) = req.pre.pool )
            => /\ AmountIn(accounts', req.account_id) = req.pre.amount
               /\ assets'[req.peer_id].balance = req.pre.pool]_vars

\* The quote a buy continuation received fails validation: it is absent
\* (failed promise, no price), expired, has a zero multiplier, has fewer
\* decimals than the asset (as delivered or after conversion), or fails the
\* slippage bound of the request.
QuoteInvalid(promise, d, expected) ==
    \/ promise.kind # "Successful"
    \/ ~promise.data.price.ok
    \/ promise.data.expiration <= block_timestamp
    \/ promise.data.price.v.multiplier = Zero
    \/ promise.data.price.v.decimals < d
    \/ QuoteFor(promise.data, d).decimals < d
    \/ /\ expected.ok
       /\ \/ expected.v.decimals # QuoteFor(promise.data, d).decimals
          \/ Lt(QuoteFor(promise.data, d).multiplier,
                IF Lt(expected.v.multiplier, expected.v.slippage) THEN Zero
                ELSE Sub(expected.v.multiplier, expected.v.slippage))
          \/ Lt(Add(expected.v.multiplier, expected.v.slippage),
                QuoteFor(promise.data, d).multiplier)

C4_OverflowingBuyChangesNothing ==
    [][\A r \in Rids :
        LET req == reqs[r]
            d   == assets[req.peer_id].decimals
            p   == reqs'[r].promise
        IN  ( /\ Ran(r, "buy", "QuoteRequested")
              /\ ~QuoteInvalid(p, d, req.expected)
              /\ Lt(U128_MAX, AssetToNativeProduct(req.amount, d, QuoteFor(p.data, d))) )
            => /\ reqs'[r].state = "Aborted"
               /\ LedgerUnchanged]_vars

C4_Witness ==
    \E r \in Rids :
        /\ reqs[r].kind = "buy" /\ reqs[r].state = "Aborted"
        /\ reqs[r].amount = Pow10(27)
        /\ ~QuoteInvalid(reqs[r].promise, assets[reqs[r].peer_id].decimals, reqs[r].expected)
        /\ assets[reqs[r].peer_id].status = "Enabled"
        /\ Le(Add(assets[reqs[r].peer_id].balance, reqs[r].amount), U128_MAX)

\* C5: a successful buy of amount a increases the asset pool by a and the
\* buyer's amount and the total supply by the native equivalent of a; for
\* 6 decimals, quote {10001, 10} and a = 1_000_000 that is
\* 999_900_009_999_000_099.
C5_BuyCommit ==
    [][\A r \in Rids :
        LET req == reqs[r]
            d   == assets[req.peer_id].decimals
            q   == QuoteFor(reqs'[r].promise.data, d)
            kt  == AssetToNative(req.amount, d, q)
        IN  ( /\ Ran(r, "buy", "QuoteRequested")
              /\ reqs'[r].state = "Committed" )
            => /\ assets'[req.peer_id].balance = Add(assets[req.peer_id].balance, req.amount)
               /\ AmountIn(accounts', req.account_id)
                    = Add(AmountIn(accounts, req.account_id), kt)
               /\ total_supply' = Add(total_supply, kt)
               /\ (d = 6 /\ q = ExchangePrice(Q10001, 10) /\ req.amount = Million)
                    => kt = Bought]_vars

C5_Witness ==
    \E r \in Rids :
        /\ reqs[r].kind = "buy" /\ reqs[r].state = "Committed"
        /\ reqs[r].amount = Million
        /\ reqs[r].promise.data.price.v = Price(Q10001, 16)
        /\ assets[reqs[r].peer_id].decimals = 6
        /\ assets[reqs[r].peer_id].balance = Million
        /\ AmountIn(accounts, reqs[r].account_id) = Bought
        /\ total_supply = Bought

\* C6: a successful sell commit of native amount n decreases the seller's
\* amount and the total supply by n and the asset pool by the asset
\* equivalent of n, and the remote transfer it issues carries exactly that
\* asset amount; for 6 decimals, quote {10001, 10} and
\* n = 999_900_009_999_000_099 that is 999_999.
C6_SellCommit ==
    [][\A r \in Rids :
        LET req == reqs[r]
            d   == assets[req.peer_id].decimals
            q   == QuoteFor(reqs'[r].promise.data, d)
            x   == NativeToAsset(req.amount, d, q)
        IN  ( /\ Ran(r, "sell", "QuoteRequested")
              /\ reqs'[r].state = "RemoteTransferRequested" )
            => /\ Add(AmountIn(accounts', req.account_id), req.amount)
                    = AmountIn(accounts, req.account_id)
               /\ Add(total_supply', req.amount) = total_supply
               /\ Add(assets'[req.peer_id].balance, x) = assets[req.peer_id].balance
               /\ reqs'[r].asset_amount = x
               /\ reqs'[r].transfers = 1
               /\ (d = 6 /\ q = ExchangePrice(Q10001, 10) /\ req.amount = Bought)
                    => x = BE(<<999, 999>>)]_vars

C6_Witness ==
    \E r \in Rids :
        /\ reqs[r].kind = "sell" /\ reqs[r].state = "RemoteTransferRequested"
        /\ reqs[r].amount = Bought
        /\ reqs[r].promise.data.price.v = Price(Q10001, 16)
        /\ reqs[r].asset_amount = BE(<<999, 999>>)
        /\ reqs[r].pre.pool = Million
        /\ assets[reqs[r].peer_id].balance = One
        /\ AmountIn(accounts, reqs[r].account_id) = Zero
        /\ total_supply = Zero

\* C7: every step that changes the pool of an asset also changes the
\* amount of some holder and the total supply (pools are unsigned, so never
\* negative).
C7_PoolChangesInLockstep ==
    [][\A a \in DOMAIN assets :
        assets'[a].balance # assets[a].balance
        => /\ \E h \in AccountIds : AmountIn(accounts', h) # AmountIn(accounts, h)
           /\ total_supply' # total_supply]_vars

\* C8: for every request the commit is applied at most once and each
\* continuation runs at most once, under every interleaving.
C8_AtMostOnce ==
    \A r \in Rids :
        /\ reqs[r].commits <= 1
        /\ reqs[r].quote_runs <= 1
        /\ reqs[r].resolve_runs <= 1

C8_Witness ==
    /\ Len(reqs) = 2
    /\ reqs[1].kind = "buy" /\ reqs[1].commits = 1 /\ reqs[1].quote_runs = 1
    /\ reqs[2].kind = "sell" /\ reqs[2].commits = 1 /\ reqs[2].quote_runs = 1
    /\ reqs[2].resolve_runs = 1

\* The price source and the remote transfer service answer every request:
\* a scheduled continuation eventually runs.
Fairness ==
    \A r \in 1 .. MaxRequests :
        /\ WF_vars(r \in Rids /\ \E p \in OracleResults : buy_with_price(r, p))
        /\ WF_vars(r \in Rids /\ \E p \in OracleResults : sell_with_price(r, p))
        /\ WF_vars(r \in Rids /\ \E t \in TransferResults : resolve_sell(r, t))
        /\ WF_vars(r \in Rids /\ \E t \in ReceiverResults : ft_resolve_transfer(r, t))

LiveSpec == Spec /\ Fairness

Pending(r) ==
    /\ r \in Rids
    /\ reqs[r].kind \in {"buy", "sell"}
    /\ reqs[r].state \in {"QuoteRequested", "RemoteTransferRequested"}

Terminal(r) ==
    /\ r \in Rids
    /\ \/ reqs[r].kind = "buy" /\ reqs[r].state \in {"Committed", "Aborted"}
       \/ reqs[r].kind = "sell" /\ reqs[r].state \in {"Aborted", "Settled", "Reverted"}

\* C9: when the price source and the transfer service answer, every buy
\* that entered QuoteRequested ends Committed or Aborted, and every sell
\* that entered QuoteRequested or RemoteTransferRequested ends Aborted,
\* Settled or Reverted.
C9_EveryRequestTerminates ==
    \A r \in 1 .. MaxRequests : Pending(r) ~> Terminal(r)

\* C10: a committed sell issues its remote transfer exactly once, at the
\* commit, and never again; resolve_sell applies the compensating deposits
\* (pool and holder) exactly when the transfer failed, and changes no
\* ledger state when it succeeded.
C10_TransferOnceCompensateIffFailed ==
    [][\A r \in Rids :
        LET req == reqs[r]
        IN  /\ ( Ran(r, "sell", "QuoteRequested")
                 /\ reqs'[r].state = "RemoteTransferRequested" )
               => reqs'[r].transfers = 1
            /\ ( req.kind = "sell" /\ req.state # "QuoteRequested" )
               => reqs'[r].transfers = req.transfers
            /\ Ran(r, "sell", "RemoteTransferRequested")
               => IF reqs'[r].result.kind = "Failed"
                  THEN /\ assets'[req.peer_id].balance
                            = Add(assets[req.peer_id].balance, req.asset_amount)
                       /\ AmountIn(accounts', req.account_id)
                            = Add(AmountIn(accounts, req.account_id), req.amount)
                       /\ total_supply' = Add(total_supply, req.amount)
                  ELSE LedgerUnchanged]_vars

\* C11: the compensation step of a sell never fails: whenever resolve_sell
\* runs on a failed transfer, whatever happened since the sell commit, the
\* treasury re-deposit and the holder re-deposit are both applied and the
\* request ends Reverted.
C11_CompensationNeverFails ==
    [][\A r \in Rids :
        LET req == reqs[r]
        IN  ( /\ Ran(r, "sell", "RemoteTransferRequested")
              /\ reqs'[r].result.kind = "Failed" )
            => /\ reqs'[r].state = "Reverted"
               /\ assets'[req.peer_id].balance
                    = Add(assets[req.peer_id].balance, req.asset_amount)
               /\ AmountIn(accounts', req.account_id)
                    = Add(AmountIn(accounts, req.account_id), req.amount)]_vars

\* A quote the price source delivered in a usable form for an asset of d
\* decimals: the promise succeeded, carries a price, and that price has at
\* least d decimals
QuoteDelivered(promise, d) ==
    /\ promise.kind = "Successful"
    /\ promise.data.price.ok
    /\ promise.data.price.v.decimals >= d

\* q is not the price e expects: other decimals, or a multiplier outside
\* [e.multiplier - e.slippage, e.multiplier + e.slippage]
OutsideExpected(e, q) ==
    \/ e.decimals # q.decimals
    \/ Lt(Add(q.multiplier, e.slippage), e.multiplier)
    \/ Lt(Add(e.multiplier, e.slippage), q.multiplier)

QuoteUnusable(promise) ==
    \/ promise.kind # "Successful"
    \/ ~promise.data.price.ok
    \/ promise.data.expiration <= block_timestamp
    \/ promise.data.price.v.multiplier = Zero

\* C13: a sell never commits (no burn, no pool decrease, no remote
\* transfer) when the quote delivered to its continuation is expired,
\* missing, has a zero multiplier or fails the slippage bound the caller
\* sent: the same validation as a buy.
C13_SellValidatesQuoteAsBuy ==
    [][\A r \in Rids :
        LET req == reqs[r]
            d   == assets[req.peer_id].decimals
            p   == reqs'[r].promise
        IN  ( /\ Ran(r, "sell", "QuoteRequested")
              /\ \/ QuoteUnusable(p)
                 \/ /\ req.expected.ok
                    /\ QuoteDelivered(p, d)
                    /\ OutsideExpected(req.expected.v, QuoteFor(p.data, d)) )
            => /\ reqs'[r].state = "Aborted"
               /\ reqs'[r].transfers = 0
               /\ LedgerUnchanged]_vars

\* This step accepted a buy notification or a sell request: it issued the
\* price request of a new request
Issued ==
    /\ Len(reqs') = Len(reqs) + 1
    /\ reqs'[Len(reqs')].kind \in {"buy", "sell"}

\* C14: ft_on_transfer or sell for an asset that is unknown or Disabled
\* fails at once: a price request is issued only for an asset that is
\* registered and Enabled, and neither call changes the ledger.
C14_RequestOnlyForEnabledAsset ==
    [][Issued
        => /\ reqs'[Len(reqs')].peer_id \in DOMAIN assets
           /\ assets[reqs'[Len(reqs')].peer_id].status = "Enabled"
           /\ reqs'[Len(reqs')].state = "QuoteRequested"
           /\ LedgerUnchanged]_vars

\* The asset is Disabled with room for another request: a buy was accepted
\* while it was Enabled, and the next notification or sell is refused.
C14_Witness ==
    /\ Len(reqs) = 1
    /\ reqs[1].kind = "buy" /\ reqs[1].state = "QuoteRequested"
    /\ assets[reqs[1].peer_id].status = "Disabled"

\* ------------------------------------------------------------------------
\* The modules on their own, called directly as their unit tests call them.
\* reqs is the list of the calls made, each with its arguments and its
\* outcome.  At most MaxCalls calls are made.
\* ------------------------------------------------------------------------
MaxCalls == 3

\* ---- oracle.rs: ExchangePrice::from_price_data ----
\* decimals of the asset the quote is for: 6 and 10 (above and below the
\* decimals of the quotes)
QuotedDecimals == {6, 10}
\* expired or not; without a price, zero, with 5, 6, 10 and 16 decimals
Quotes ==
    { PriceData(e, p) :
        e \in {block_timestamp, block_timestamp + 1},
        p \in {NoPrice, Some(Price(Zero, 16)), Some(Price(Q10001, 5)),
               Some(Price(Q10000, 6)), Some(Price(Q10001, 10)),
               Some(Price(Q10001, 16))} }

Quoted(asset, data, res) == [kind |-> "quote", asset |-> asset, data |-> data, res |-> res]

\* ExchangePrice::from_price_data(&AssetInfo::new(decimals), data)
quote(decimals, data) ==
    /\ Len(reqs) < MaxCalls
    /\ reqs' = Append(reqs, Quoted(AssetInfo_new(decimals).v, data,
                                   from_price_data(AssetInfo_new(decimals).v, data)))
    /\ UNCHANGED <<overflow_checks, owner_id, assets, accounts, total_supply>>

QuoteNext == \E d \in QuotedDecimals, data \in Quotes : quote(d, data)

QuoteSpec == Init /\ [][QuoteNext]_vars

\* the conditions of acceptance, one by one
NotExpired(c) == block_timestamp < c.data.expiration
HasPrice(c) == c.data.price.ok
DecimalsCover(c) == c.data.price.v.decimals >= c.asset.decimals
NonZero(c) == c.data.price.v.multiplier # Zero
Acceptable(c) == NotExpired(c) /\ HasPrice(c) /\ DecimalsCover(c) /\ NonZero(c)

\* C15: from_price_data accepts a quote exactly when it has not expired, it
\* carries a price, the price has at least the asset's decimals and its
\* multiplier is not zero.  A rejection names a condition that is violated
\* (outdated, missing, wrong decimals, zero: four different failures), and
\* names the violated condition when it is the only one.  An accepted quote
\* keeps the multiplier and has decimals = price.decimals - asset.decimals.
C15_FromPriceDataAcceptsIff ==
    \A i \in 1..Len(reqs) :
        reqs[i].kind = "quote" =>
            LET c == reqs[i]
            IN  /\ c.res.ok <=> Acceptable(c)
                /\ c.res.ok =>
                      c.res.v = ExchangePrice(c.data.price.v.multiplier,
                                              c.data.price.v.decimals - c.asset.decimals)
                /\ ~c.res.ok =>
                      /\ c.res.err \in {"Oracle price is outdated", "Oracle price is missing",
                                        "Oracle price wrong decimals", "Oracle price is zero"}
                      /\ c.res.err = "Oracle price is outdated" => ~NotExpired(c)
                      /\ c.res.err = "Oracle price is missing" => ~HasPrice(c)
                      /\ c.res.err = "Oracle price wrong decimals" =>
                            HasPrice(c) /\ ~DecimalsCover(c)
                      /\ c.res.err = "Oracle price is zero" => HasPrice(c) /\ ~NonZero(c)
                      /\ ~NotExpired(c) /\ HasPrice(c) /\ DecimalsCover(c) /\ NonZero(c)
                            => c.res.err = "Oracle price is outdated"
                      /\ NotExpired(c) /\ ~HasPrice(c)
                            => c.res.err = "Oracle price is missing"
                      /\ NotExpired(c) /\ HasPrice(c) /\ ~DecimalsCover(c) /\ NonZero(c)
                            => c.res.err = "Oracle price wrong decimals"
                      /\ NotExpired(c) /\ HasPrice(c) /\ DecimalsCover(c) /\ ~NonZero(c)
                            => c.res.err = "Oracle price is zero"

\* The quote {10001, 10} accepted for an asset of 6 decimals, 4 decimals
\* left (test_exchange_price), after a quote rejected as outdated and one
\* rejected for its decimals.
C15_Witness ==
    /\ Len(reqs) = 3
    /\ reqs[1].kind = "quote" /\ reqs[1].res.err = "Oracle price is outdated"
    /\ reqs[2].kind = "quote" /\ reqs[2].res.err = "Oracle price wrong decimals"
    /\ reqs[3].kind = "quote" /\ reqs[3].res.ok
    /\ reqs[3].asset.decimals = 6
    /\ reqs[3].data.price.v = Price(Q10001, 10)
    /\ reqs[3].res.v = ExchangePrice(Q10001, 4)

\* ---- ft.rs: internal_deposit, internal_withdraw, internal_transfer, with
\* any amount and price; the outcome of a call is whether it returned (ok)
\* or panicked ----

\* 2 * 10^38: two of them do not fit 128 bits
Big == MulSmall(Pow10(38), 2)
UnitAmounts == {Zero, BE(<<100>>), BE(<<200>>), Big}
\* 0 (the price of ft_transfer), 1_000_000 and 1_500_000 (test_account_balance)
UnitPrices == {Zero, BE(<<1, 0, 0>>), BE(<<1, 500, 0>>)}
\* the account withdrawals and transfers are made from
Payers == {"alice"}
\* 0 (the price of ft_transfer) and 1_000_000
UnitTransferPrices == {Zero, BE(<<1, 0, 0>>)}

LedgerOp(kind, account_id, peer_id, amount, price, ok) ==
    [kind |-> kind, account_id |-> account_id, peer_id |-> peer_id,
     amount |-> amount, price |-> price, ok |-> ok]

\* the call t of a ledger operation, recorded
Called(kind, account_id, peer_id, amount, price, t) ==
    /\ Len(reqs) < MaxCalls
    /\ Store(LedgerCall(t, TRUE))
    /\ reqs' = Append(reqs, LedgerOp(kind, account_id, peer_id, amount, price, t.ok))
    /\ UNCHANGED <<overflow_checks, owner_id>>

deposit(account_id, amount, price) ==
    Called("deposit", account_id, account_id, amount, price,
           internal_deposit(State.token, account_id, amount, price))

withdraw(account_id, amount, price) ==
    Called("withdraw", account_id, account_id, amount, price,
           internal_withdraw(State.token, account_id, amount, price))

transfer(sender_id, receiver_id, amount, price) ==
    Called("transfer", sender_id, receiver_id, amount, price,
           internal_transfer(State.token, sender_id, receiver_id, amount, price))

TokenNext ==
    \/ \E a \in AccountIds, n \in UnitAmounts, p \in UnitPrices : deposit(a, n, p)
    \/ \E a \in Payers, n \in UnitAmounts, p \in UnitPrices : withdraw(a, n, p)
    \/ \E s \in Payers, t \in AccountIds, n \in UnitAmounts, p \in UnitTransferPrices :
          transfer(s, t, n, p)

TokenSpec == Init /\ [][TokenNext]_vars

\* the call made by this step, when it made a call of this kind
Made(kind) == reqs' # reqs /\ reqs'[Len(reqs')].kind = kind

\* what the holder owns before the step (nothing at price 0 when unknown)
Holding(account_id) ==
    IF account_id \in DOMAIN accounts THEN accounts[account_id]
    ELSE [amount |-> Zero, price |-> Zero]

\* the step changed the entry of account_id to amount at price, and no other
OnlyChanged(account_id, amount, price) ==
    /\ DOMAIN accounts' = DOMAIN accounts \cup {account_id}
    /\ accounts'[account_id].amount = amount
    /\ accounts'[account_id].price = price
    /\ \A b \in DOMAIN accounts \ {account_id} : accounts'[b] = accounts[b]

\* |p - q| and floor(amount * |price - cur| / new_amount), exact
Gap(p, q) == IF Lt(p, q) THEN Sub(q, p) ELSE Sub(p, q)
ExactStep(cur, amount, price, new_amount) ==
    Div(Mul(amount, Gap(cur.price, price)), new_amount)

\* the weighted price of the claim after a deposit, exact
DepositPrice(cur, amount, price, new_amount) ==
    IF price = cur.price THEN cur.price
    ELSE IF Lt(cur.price, price)
    THEN Add(cur.price, ExactStep(cur, amount, price, new_amount))
    ELSE Sub(cur.price, ExactStep(cur, amount, price, new_amount))

\* no arithmetic failure in a deposit: the sums and the product fit 128 bits
\* and the division is not by zero
DepositFits(cur, amount, price, new_amount) ==
    /\ Le(new_amount, U128_MAX)
    /\ Le(Add(total_supply, amount), U128_MAX)
    /\ price # cur.price =>
          /\ new_amount # Zero
          /\ Le(Mul(amount, Gap(cur.price, price)), U128_MAX)
          /\ Le(DepositPrice(cur, amount, price, new_amount), U128_MAX)

\* the deposit recorded as op, made by this step on the holding cur
DepositDone(op, cur, new_amount) ==
    /\ op.ok <=> DepositFits(cur, op.amount, op.price, new_amount)
    /\ op.ok =>
          /\ OnlyChanged(op.account_id, new_amount,
                         DepositPrice(cur, op.amount, op.price, new_amount))
          /\ total_supply' = Add(total_supply, op.amount)
    /\ ~op.ok => accounts' = accounts /\ total_supply' = total_supply

\* C16: a deposit of amount at price makes the holder's amount
\* current.amount + amount and the holder's price the weighted mean: the same
\* when price = current, current + floor(amount * (price - current) /
\* new_amount) when price > current, current - floor(amount * (current -
\* price) / new_amount) when price < current; the total supply grows by
\* amount and no other holder changes.  When a sum or the product does not
\* fit 128 bits, or the division is by zero, the deposit fails and neither
\* the holders nor the total supply change.
C16_DepositWeightedPrice ==
    [][Made("deposit") =>
          DepositDone(reqs'[Len(reqs')], Holding(reqs'[Len(reqs')].account_id),
                      Add(Holding(reqs'[Len(reqs')].account_id).amount,
                          reqs'[Len(reqs')].amount))]_vars

\* 100 at 1,000,000 then 200 at 1,500,000 gave alice 300 at 1,333,333, and
\* a third deposit, of 2 * 10^38 at price 0, overflowed in the product and
\* left her holding and the total supply as they were.
C16_Witness ==
    /\ Len(reqs) = 3
    /\ reqs[1] = LedgerOp("deposit", "alice", "alice", BE(<<100>>), BE(<<1, 0, 0>>), TRUE)
    /\ reqs[2] = LedgerOp("deposit", "alice", "alice", BE(<<200>>), BE(<<1, 500, 0>>), TRUE)
    /\ reqs[3] = LedgerOp("deposit", "alice", "alice", Big, Zero, FALSE)
    /\ accounts["alice"] = [amount |-> BE(<<300>>), price |-> BE(<<1, 333, 333>>)]
    /\ total_supply = BE(<<300>>)

\* the withdrawal recorded as op, made by this step on the holding cur
WithdrawDone(op, cur) ==
    /\ Lt(cur.amount, op.amount) =>
          ~op.ok /\ accounts' = accounts /\ total_supply' = total_supply
    /\ Le(op.amount, cur.amount) =>
          /\ op.ok
          /\ accounts'[op.account_id].amount = Sub(cur.amount, op.amount)
          /\ total_supply' = Sub(total_supply, op.amount)

\* C17: a withdrawal of more than the holder owns fails; a withdrawal of any
\* amount up to what the holder owns, all of it included, at any price,
\* succeeds, leaves current.amount - amount and takes amount from the total
\* supply.
C17_WithdrawUpToBalanceSucceeds ==
    [][Made("withdraw") =>
          WithdrawDone(reqs'[Len(reqs')], Holding(reqs'[Len(reqs')].account_id))]_vars

\* the transfer recorded as op, made by this step from the holding of the
\* sender to the holding of the receiver
TransferDone(op, from, to) ==
    /\ op.account_id = op.peer_id \/ op.amount = Zero =>
          ~op.ok /\ accounts' = accounts /\ total_supply' = total_supply
    /\ total_supply' = total_supply
    /\ \/ /\ op.ok
          /\ DOMAIN accounts' = DOMAIN accounts \cup {op.account_id, op.peer_id}
          /\ accounts'[op.account_id].amount = Sub(from.amount, op.amount)
          /\ Le(op.amount, from.amount)
          /\ accounts'[op.peer_id].amount = Add(to.amount, op.amount)
          /\ \A b \in DOMAIN accounts \ {op.account_id, op.peer_id} :
                accounts'[b] = accounts[b]
       \/ ~op.ok /\ accounts' = accounts

\* C18: a transfer to oneself or of amount 0 fails and changes nothing.  Any
\* other transfer either takes amount from the sender, gives amount to the
\* receiver and leaves the total supply and every other holder as they were,
\* or fails and changes no balance at all, whichever of its two legs failed.
C18_TransferAllOrNothing ==
    [][Made("transfer") =>
          TransferDone(reqs'[Len(reqs')], Holding(reqs'[Len(reqs')].account_id),
                       Holding(reqs'[Len(reqs')].peer_id))]_vars

\* alice owns 2 * 10^38 at price 0 and bob 100 at 1,000,000; the transfer of
\* all alice owns to bob at price 0 passed its withdrawal (same price) and
\* failed in the deposit (the product for bob's price overflows): alice
\* still owns everything.
C18_Witness ==
    /\ Len(reqs) = 3
    /\ reqs[1] = LedgerOp("deposit", "alice", "alice", Big, Zero, TRUE)
    /\ reqs[2] = LedgerOp("deposit", "bob", "bob", BE(<<100>>), BE(<<1, 0, 0>>), TRUE)
    /\ reqs[3] = LedgerOp("transfer", "alice", "bob", Big, Zero, FALSE)
    /\ internal_withdraw(State.token, "alice", Big, Zero).ok
    /\ accounts["alice"].amount = Big
    /\ accounts["bob"].amount = BE(<<100>>)

\* ---- treasury.rs: Treasury::add_asset, enable_asset, disable_asset, for
\* two assets; the outcome of a call is whether it returned (ok) or
\* panicked ----
TreasuryIds == {"usdc", "dai"}
\* 0 and 38 are out of bounds, 1 and 37 the bounds, 20 the decimals of the
\* tests
TreasuryDecimals == {0, 1, 20, MAX_U128_DECIMALS, MAX_U128_DECIMALS + 1}

TreasuryOp(kind, asset_id, decimals, ok) ==
    [kind |-> kind, asset_id |-> asset_id, decimals |-> decimals, ok |-> ok]

\* the call t of a Treasury operation, recorded
TreasuryCalled(kind, asset_id, decimals, t) ==
    /\ Len(reqs) < MaxCalls
    /\ assets' = IF t.ok THEN t.assets ELSE assets
    /\ reqs' = Append(reqs, TreasuryOp(kind, asset_id, decimals, t.ok))
    /\ UNCHANGED <<overflow_checks, owner_id, accounts, total_supply>>

call_add_asset(asset_id, decimals) ==
    TreasuryCalled("add_asset", asset_id, decimals,
                   Treasury_add_asset(assets, asset_id, decimals))

call_enable_asset(asset_id) ==
    TreasuryCalled("enable_asset", asset_id, 0, Treasury_enable_asset(assets, asset_id))

call_disable_asset(asset_id) ==
    TreasuryCalled("disable_asset", asset_id, 0, Treasury_disable_asset(assets, asset_id))

\* assert_asset_status(&self, ..): the outcome is the AssetInfo returned
\* (res.ok, res.v) or the panic (~res.ok)
call_assert_asset_status(asset_id, status) ==
    /\ Len(reqs) < MaxCalls
    /\ reqs' = Append(reqs, [kind |-> "assert_asset_status", asset_id |-> asset_id,
                             status |-> status,
                             res |-> assert_asset_status(assets, asset_id, status)])
    /\ UNCHANGED <<overflow_checks, owner_id, assets, accounts, total_supply>>

\* amounts for the pooled balance: 100, and 2 * 10^38 twice overflows
PoolAmounts == {BE(<<100>>), Big}

PoolOp(kind, asset_id, amount, ok) ==
    [kind |-> kind, asset_id |-> asset_id, amount |-> amount, ok |-> ok]

\* the call t of a Treasury balance operation, recorded
PoolCalled(kind, asset_id, amount, t) ==
    /\ Len(reqs) < MaxCalls
    /\ assets' = IF t.ok THEN t.assets ELSE assets
    /\ reqs' = Append(reqs, PoolOp(kind, asset_id, amount, t.ok))
    /\ UNCHANGED <<overflow_checks, owner_id, accounts, total_supply>>

call_internal_deposit(asset_id, amount) ==
    PoolCalled("internal_deposit", asset_id, amount,
               Treasury_internal_deposit(assets, asset_id, amount))

call_internal_withdraw(asset_id, amount) ==
    PoolCalled("internal_withdraw", asset_id, amount,
               Treasury_internal_withdraw(assets, asset_id, amount))

TreasuryNext ==
    \/ \E a \in TreasuryIds, d \in TreasuryDecimals : call_add_asset(a, d)
    \/ \E a \in TreasuryIds : call_enable_asset(a)
    \/ \E a \in TreasuryIds : call_disable_asset(a)
    \/ \E a \in TreasuryIds, st \in {"Enabled", "Disabled"} :
          call_assert_asset_status(a, st)
    \/ \E a \in TreasuryIds, n \in PoolAmounts : call_internal_deposit(a, n)
    \/ \E a \in TreasuryIds, n \in PoolAmounts : call_internal_withdraw(a, n)

TreasurySpec == Init /\ [][TreasuryNext]_vars

\* the add_asset recorded as op, made by this step
AddAssetDone(op) ==
    IF op.asset_id \in DOMAIN assets \/ op.decimals \notin 1..37
    THEN ~op.ok /\ assets' = assets
    ELSE /\ op.ok
         /\ DOMAIN assets' = DOMAIN assets \cup {op.asset_id}
         /\ assets'[op.asset_id] =
               [decimals |-> op.decimals, balance |-> Zero, status |-> "Enabled"]
         /\ \A b \in DOMAIN assets : assets'[b] = assets[b]

\* C19: add_asset fails and leaves the registry as it was when the asset is
\* already registered or decimals is not in 1..37; otherwise it registers
\* the asset with these decimals, Enabled, with a pooled balance of 0, and
\* leaves every other asset as it was.
C19_AddAsset ==
    [][Made("add_asset") => AddAssetDone(reqs'[Len(reqs')])]_vars

\* usdc registered with 20 decimals and dai with 37; registering usdc again
\* failed and both are as they were registered.
C19_Witness ==
    /\ Len(reqs) = 3
    /\ reqs[1] = TreasuryOp("add_asset", "usdc", 20, TRUE)
    /\ reqs[2] = TreasuryOp("add_asset", "dai", 37, TRUE)
    /\ reqs[3] = TreasuryOp("add_asset", "usdc", 1, FALSE)
    /\ assets["usdc"] = [decimals |-> 20, balance |-> Zero, status |-> "Enabled"]
    /\ assets["dai"] = [decimals |-> 37, balance |-> Zero, status |-> "Enabled"]

\* the change of status recorded as op to the status it asks for, made by
\* this step
SameStatusRefused(op, status) ==
    op.asset_id \notin DOMAIN assets \/ assets[op.asset_id].status = status
        => ~op.ok /\ assets' = assets

\* C20: enable_asset fails for an asset that is not registered or is
\* Enabled, disable_asset fails for an asset that is not registered or is
\* Disabled, and the failed call leaves the registry as it was.
C20_StatusChangeIsStrict ==
    [][/\ Made("enable_asset") => SameStatusRefused(reqs'[Len(reqs')], "Enabled")
       /\ Made("disable_asset") => SameStatusRefused(reqs'[Len(reqs')], "Disabled")]_vars

\* usdc was registered and disabled; disabling it again failed and it is
\* still Disabled (test_disable_asset_twice).
C20_Witness ==
    /\ Len(reqs) = 3
    /\ reqs[1] = TreasuryOp("add_asset", "usdc", 20, TRUE)
    /\ reqs[2] = TreasuryOp("disable_asset", "usdc", 0, TRUE)
    /\ reqs[3] = TreasuryOp("disable_asset", "usdc", 0, FALSE)
    /\ assets["usdc"].status = "Disabled"

\* every asset but asset_id is as it was, and no asset appeared or vanished
OthersKept(asset_id) ==
    /\ DOMAIN assets' = DOMAIN assets
    /\ \A b \in DOMAIN assets \ {asset_id} : assets'[b] = assets[b]

\* the change of status to target recorded as op, made by this step
StatusChangeDone(op, target) ==
    /\ OthersKept(op.asset_id)
    /\ op.asset_id \in DOMAIN assets =>
          /\ assets'[op.asset_id].decimals = assets[op.asset_id].decimals
          /\ assets'[op.asset_id].balance = assets[op.asset_id].balance
          /\ assets'[op.asset_id].status =
                IF op.ok THEN target ELSE assets[op.asset_id].status

\* this step enabled again the asset that the call before it had disabled
ToggledBack ==
    /\ Made("enable_asset") /\ reqs'[Len(reqs')].ok
    /\ Len(reqs) > 0
    /\ reqs[Len(reqs)].kind = "disable_asset" /\ reqs[Len(reqs)].ok
    /\ reqs[Len(reqs)].asset_id = reqs'[Len(reqs')].asset_id

\* C21: disabling an Enabled asset and enabling it again gives back the
\* status Enabled, and a call of enable_asset or disable_asset changes
\* neither the decimals nor the pooled balance of the asset, nor anything of
\* another asset.
C21_StatusToggleKeepsAsset ==
    [][/\ Made("enable_asset") => StatusChangeDone(reqs'[Len(reqs')], "Enabled")
       /\ Made("disable_asset") => StatusChangeDone(reqs'[Len(reqs')], "Disabled")
       /\ ToggledBack => assets'[reqs'[Len(reqs')].asset_id].status = "Enabled"]_vars

\* usdc was registered with 20 decimals, disabled and enabled again
\* (test_enable_disable_assets): it is as add_asset made it.
C21_Witness ==
    /\ Len(reqs) = 3
    /\ reqs[1] = TreasuryOp("add_asset", "usdc", 20, TRUE)
    /\ reqs[2] = TreasuryOp("disable_asset", "usdc", 0, TRUE)
    /\ reqs[3] = TreasuryOp("enable_asset", "usdc", 0, TRUE)
    /\ assets["usdc"] = [decimals |-> 20, balance |-> Zero, status |-> "Enabled"]

\* C22: assert_asset_status fails when the asset is not registered or its
\* status is not the required one; otherwise it returns the decimals, the
\* balance and the status the registry holds for the asset.  The registry is
\* the same after the call in every case.
C22_AssertAssetStatus ==
    [][Made("assert_asset_status") =>
          LET op == reqs'[Len(reqs')]
          IN  /\ assets' = assets
              /\ op.res.ok <=> /\ op.asset_id \in DOMAIN assets
                               /\ assets[op.asset_id].status = op.status
              /\ op.res.ok =>
                    /\ op.res.v.decimals = assets[op.asset_id].decimals
                    /\ op.res.v.balance = assets[op.asset_id].balance
                    /\ op.res.v.status = assets[op.asset_id].status]_vars

\* usdc holds 100 and is Enabled: asserting Enabled returned its decimals,
\* balance and status.
C22_Witness ==
    /\ Len(reqs) = 3
    /\ reqs[1] = TreasuryOp("add_asset", "usdc", 20, TRUE)
    /\ reqs[2] = PoolOp("internal_deposit", "usdc", BE(<<100>>), TRUE)
    /\ reqs[3].kind = "assert_asset_status" /\ reqs[3].status = "Enabled"
    /\ reqs[3].res = Some([decimals |-> 20, balance |-> BE(<<100>>), status |-> "Enabled"])

\* the asset of op is as it was but for its balance, which is new_balance
BalanceSet(op, new_balance) ==
    /\ OthersKept(op.asset_id)
    /\ assets'[op.asset_id] = [assets[op.asset_id] EXCEPT !.balance = new_balance]

\* the balance operation recorded as op, made by this step; fits: the new
\* balance is in the 128-bit range
PoolDone(op, fits, new_balance) ==
    /\ op.ok <=> op.asset_id \in DOMAIN assets /\ fits
    /\ op.ok => BalanceSet(op, new_balance)
    /\ ~op.ok => assets' = assets

\* the pooled balance of the asset of op before the step (0 when unknown)
Pooled(op) ==
    IF op.asset_id \in DOMAIN assets THEN assets[op.asset_id].balance ELSE Zero

\* C23: internal_deposit adds amount to the pooled balance of the asset and
\* fails when the asset is not registered or the sum does not fit 128 bits;
\* internal_withdraw subtracts amount and fails when the asset is not
\* registered or amount is more than the pooled balance.  A failed call
\* leaves the registry as it was; a successful one changes the balance only,
\* whatever the status of the asset.
C23_PoolDepositWithdraw ==
    [][/\ Made("internal_deposit") =>
             PoolDone(reqs'[Len(reqs')],
                      Le(Add(Pooled(reqs'[Len(reqs')]), reqs'[Len(reqs')].amount), U128_MAX),
                      Add(Pooled(reqs'[Len(reqs')]), reqs'[Len(reqs')].amount))
       /\ Made("internal_withdraw") =>
             PoolDone(reqs'[Len(reqs')],
                      Le(reqs'[Len(reqs')].amount, Pooled(reqs'[Len(reqs')])),
                      Sub(Pooled(reqs'[Len(reqs')]), reqs'[Len(reqs')].amount))]_vars

\* usdc holds 100: a withdrawal of 2 * 10^38 failed and the 100 are still
\* there.
C23_Witness ==
    /\ Len(reqs) = 3
    /\ reqs[1] = TreasuryOp("add_asset", "usdc", 20, TRUE)
    /\ reqs[2] = PoolOp("internal_deposit", "usdc", BE(<<100>>), TRUE)
    /\ reqs[3] = PoolOp("internal_withdraw", "usdc", Big, FALSE)
    /\ assets["usdc"].balance = BE(<<100>>)

\* ---- price.rs: convert_decimals, exchange_asset_to_kt,
\* exchange_kt_to_asset and ExpectedPrice::assert_price, applied to
\* arguments of the whole u8 and u128 ranges.  The functions keep no state:
\* a behaviour makes one call, and reqs holds it with its arguments and what
\* it returned ----
\* decimals: of the tests (6, 10, 18, 22, 28, 32), and two (60, 160) at a
\* distance whose power of ten is beyond 128 bits
UnitDecimals == {6, 10, 18, 22, 28, 32, 60, 160}
\* 0, 1, 52994, 529944008, 1_000_000, 10^18, 999_900_009_999_000_099,
\* 10^23, 10^30, 2 * 10^38 and u128::MAX
PriceAmounts ==
    { Zero, <<1>>, BE(<<52, 994>>), BE(<<529, 944, 8>>), Million, Pow10(18),
      BE(<<999, 900, 9, 999, 0, 99>>), Pow10(23), Pow10(30), Big, U128_MAX }
\* multipliers of a quote: 0, 1, 5000, 10000, 10001, 20000, 10^9, u128::MAX
Multipliers ==
    { Zero, One, BE(<<5, 0>>), Q10000, Q10001, BE(<<20, 0>>), Pow10(9), U128_MAX }

\* the call recorded as entry
Applied(entry) ==
    /\ reqs' = <<entry>>
    /\ UNCHANGED <<overflow_checks, owner_id, assets, accounts, total_supply>>

\* convert_decimals(amount, from, to), and the result converted back
call_convert_decimals(amount, from, to) ==
    Applied([kind |-> "convert_decimals", amount |-> amount, from |-> from, to |-> to,
             res |-> convert_decimals(amount, from, to),
             back |-> try_convert_decimals(convert_decimals(amount, from, to), to, from)])

\* back: the native amount returned, converted to the asset at the same
\* quote
call_exchange_asset_to_kt(amount, asset_decimals, price) ==
    Applied([kind |-> "exchange_asset_to_kt", amount |-> amount,
             asset_decimals |-> asset_decimals, price |-> price,
             res |-> exchange_asset_to_kt(amount, asset_decimals, price),
             back |-> IF exchange_asset_to_kt(amount, asset_decimals, price).ok
                      THEN exchange_kt_to_asset(
                               exchange_asset_to_kt(amount, asset_decimals, price).v,
                               asset_decimals, price)
                      ELSE None])

call_exchange_kt_to_asset(amount, asset_decimals, price) ==
    Applied([kind |-> "exchange_kt_to_asset", amount |-> amount,
             asset_decimals |-> asset_decimals, price |-> price,
             res |-> exchange_kt_to_asset(amount, asset_decimals, price)])

\* expected prices: 9999 with slippage 0, 1 and 10 (the tests), with other
\* decimals, and two whose range ends beyond 0 and beyond u128::MAX
SlippageExpecteds ==
    { ExpectedPrice(BE(<<9, 999>>), 10, Zero), ExpectedPrice(BE(<<9, 999>>), 10, One),
      ExpectedPrice(BE(<<9, 999>>), 10, BE(<<10>>)),
      ExpectedPrice(BE(<<9, 999>>), 6, BE(<<10>>)),
      ExpectedPrice(BE(<<5>>), 10, BE(<<10>>)),
      ExpectedPrice(Sub(U128_MAX, BE(<<5>>)), 10, BE(<<10>>)) }
\* multipliers around each end of these ranges
SlippageMultipliers ==
    {Nat3(k) : k \in 0..16} \cup {Nat3(k) : k \in 9985..10012}
        \cup {Sub(U128_MAX, Nat3(k)) : k \in 0..16}

\* expected.assert_price(price): ok iff it returned
call_assert_price(expected, price) ==
    Applied([kind |-> "assert_price", expected |-> expected, price |-> price,
             ok |-> assert_price(expected, price)])

PriceNext ==
    \/ /\ reqs = <<>>
       /\ \E n \in PriceAmounts, a \in UnitDecimals, b \in UnitDecimals :
             call_convert_decimals(n, a, b)
    \/ /\ reqs = <<>>
       /\ \E n \in PriceAmounts, a \in {6, 18}, m \in Multipliers, d \in UnitDecimals :
             call_exchange_asset_to_kt(n, a, ExchangePrice(m, d))
    \/ /\ reqs = <<>>
       /\ \E n \in PriceAmounts, a \in {6, 18}, m \in Multipliers, d \in UnitDecimals :
             call_exchange_kt_to_asset(n, a, ExchangePrice(m, d))
    \/ /\ reqs = <<>>
       /\ \E e \in SlippageExpecteds, m \in SlippageMultipliers, d \in {6, 10} :
             call_assert_price(e, ExchangePrice(m, d))

PriceSpec == Init /\ [][PriceNext]_vars

\* the call made, when it was a call of kind
Last(kind) == reqs # <<>> /\ reqs[1].kind = kind

\* C24: a value converted from a decimals to b >= a decimals without
\* overflow and converted back to a decimals is the value itself; a value
\* converted to b < a decimals and back is at most the value.
C24_ConvertDecimalsRoundTrip ==
    Last("convert_decimals") =>
        /\ reqs[1].to >= reqs[1].from /\ reqs[1].res.ok =>
              reqs[1].back = Some(reqs[1].amount)
        /\ reqs[1].to < reqs[1].from /\ reqs[1].back.ok =>
              Le(reqs[1].back.v, reqs[1].amount)

\* x rescaled from a to b decimals, exact: x * 10^(b - a), or
\* floor(x / 10^(a - b))
ExactRescale(x, a, b) ==
    IF a <= b THEN Mul(x, Pow10(b - a)) ELSE Div(x, Pow10(a - b))

\* rescale(amount, asset_decimals, 18) * 10^(quote.decimals - asset_decimals)
ScaledUp(c) ==
    Mul(ExactRescale(c.amount, c.asset_decimals, 18),
        Pow10(c.price.decimals - c.asset_decimals))

\* no step of the conversion of c to the native amount leaves 128 bits
AssetToKtFits(c) ==
    /\ Le(ExactRescale(c.amount, c.asset_decimals, 18), U128_MAX)
    /\ Le(Pow10(c.price.decimals - c.asset_decimals), U128_MAX)
    /\ Le(ScaledUp(c), U128_MAX)

\* C25: exchange_asset_to_kt fails when the decimals of the quote are less
\* than those of the asset; otherwise it fails when the rescaled amount, the
\* power of ten or their product does not fit 128 bits, or the multiplier is
\* zero, and else returns floor(rescale(asset_amount, asset_decimals, 18)
\* * 10^(quote.decimals - asset_decimals) / quote.multiplier).
C25_AssetToKt ==
    Last("exchange_asset_to_kt") =>
        IF reqs[1].price.decimals < reqs[1].asset_decimals THEN ~reqs[1].res.ok
        ELSE /\ reqs[1].res.ok <=>
                   AssetToKtFits(reqs[1]) /\ reqs[1].price.multiplier # Zero
             /\ reqs[1].res.ok =>
                   reqs[1].res.v = Div(ScaledUp(reqs[1]), reqs[1].price.multiplier)

\* floor(native_amount * quote.multiplier / 10^(quote.decimals -
\* asset_decimals)) rescaled from 18 to the asset's decimals, exact
ExactKtToAsset(c) ==
    ExactRescale(Div(Mul(c.amount, c.price.multiplier),
                     Pow10(c.price.decimals - c.asset_decimals)),
                 18, c.asset_decimals)

\* C26: exchange_kt_to_asset fails when the decimals of the quote are less
\* than those of the asset and when native_amount * quote.multiplier does
\* not fit 128 bits; what it returns is rescale(floor(native_amount *
\* quote.multiplier / 10^(quote.decimals - asset_decimals)), 18,
\* asset_decimals).
C26_KtToAsset ==
    Last("exchange_kt_to_asset") =>
        /\ reqs[1].price.decimals < reqs[1].asset_decimals => ~reqs[1].res.ok
        /\ ~Le(Mul(reqs[1].amount, reqs[1].price.multiplier), U128_MAX) => ~reqs[1].res.ok
        /\ reqs[1].res.ok => reqs[1].res.v = ExactKtToAsset(reqs[1])

\* the ends of the range of e: multiplier - slippage, not below 0, and
\* multiplier + slippage, not above u128::MAX
RangeMin(e) == IF Le(e.slippage, e.multiplier) THEN Sub(e.multiplier, e.slippage) ELSE Zero
RangeMax(e) ==
    IF Le(Add(e.multiplier, e.slippage), U128_MAX) THEN Add(e.multiplier, e.slippage)
    ELSE U128_MAX

\* C27: assert_price succeeds exactly when the quote has the decimals of
\* the expected price and its multiplier is in the range from multiplier -
\* slippage to multiplier + slippage, ends included, the ends saturating at
\* 0 and u128::MAX.  Expected 9999 with slippage 10 accepts exactly the
\* multipliers 9989..10009, and no multiplier at other decimals.
C27_AssertPrice ==
    Last("assert_price") =>
        /\ reqs[1].ok <=>
              /\ reqs[1].expected.decimals = reqs[1].price.decimals
              /\ Le(RangeMin(reqs[1].expected), reqs[1].price.multiplier)
              /\ Le(reqs[1].price.multiplier, RangeMax(reqs[1].expected))
        /\ reqs[1].expected = ExpectedPrice(BE(<<9, 999>>), 10, BE(<<10>>)) =>
              (reqs[1].ok <=>
                 /\ reqs[1].price.decimals = 10
                 /\ reqs[1].price.multiplier \in {Nat3(k) : k \in 9989..10009})

\* the quote {10009, 10} accepted for expected 9999 with slippage 10: the
\* upper end of the range
C27_Witness ==
    /\ Last("assert_price")
    /\ reqs[1].expected = ExpectedPrice(BE(<<9, 999>>), 10, BE(<<10>>))
    /\ reqs[1].price = ExchangePrice(BE(<<10, 9>>), 10)
    /\ reqs[1].ok

\* C28: what convert_decimals, exchange_asset_to_kt and exchange_kt_to_asset
\* return, for any decimals, is the exact result of the conversion; when a
\* step of it (a power of ten included) does not fit 128 bits they report
\* failure and return no value.
C28_ConverterExactOrFails ==
    /\ Last("convert_decimals") /\ reqs[1].res.ok =>
          reqs[1].res.v = ExactRescale(reqs[1].amount, reqs[1].from, reqs[1].to)
    /\ Last("exchange_asset_to_kt") /\ reqs[1].res.ok =>
          /\ reqs[1].price.decimals >= reqs[1].asset_decimals
          /\ reqs[1].price.multiplier # Zero
          /\ reqs[1].res.v = Div(ScaledUp(reqs[1]), reqs[1].price.multiplier)
    /\ Last("exchange_kt_to_asset") /\ reqs[1].res.ok =>
          /\ reqs[1].price.decimals >= reqs[1].asset_decimals
          /\ reqs[1].res.v = ExactKtToAsset(reqs[1])

\* ------------------------------------------------------------------------
\* lib.rs: concurrent sells of one holder
\* ------------------------------------------------------------------------
\* The ledger after add_asset("usdc", 6) and alice's buy of 1_000_000 at
\* Q10001 has committed.
Funded ==
    buy_with_price_call([assets |-> Treasury_add_asset(Empty, "usdc", 6).assets,
                         token |-> FungibleToken(Empty, Zero)],
                        "alice", "usdc", Million, NoExpected,
                        OracleResult("Successful", PriceData(1, Some(Price(Q10001, 16))))).st

\* that ledger, with no promise chain live
SellInit ==
    /\ overflow_checks \in BOOLEAN
    /\ owner_id = Owner
    /\ assets = Funded.assets
    /\ accounts = Funded.token.accounts
    /\ total_supply = Funded.token.total_supply
    /\ reqs = <<>>

\* 4 * 10^17 and 6 * 10^17 (two of the former fit what alice holds, one of
\* each does not), all she holds, and 1 (its withdrawal succeeds at every
\* price)
ConcurrentSells == {<<1>>, MulSmall(Pow10(17), 4), MulSmall(Pow10(17), 6), Bought}

SellNext ==
    \/ \E c \in Sellers, a \in AssetIds, n \in ConcurrentSells, y \in BOOLEAN, g \in BOOLEAN :
          sell(c, a, n, NoExpected, y, g)
    \/ \E r \in Rids, p \in OracleResults : sell_with_price(r, p)
    \/ \E r \in Rids, t \in TransferResults : resolve_sell(r, t)

SellSpec == SellInit /\ [][SellNext]_vars

\* the commit of sell r stands: it was made and no compensation undid it
Standing(r) ==
    reqs[r].kind = "sell" /\ reqs[r].commits > 0 /\ reqs[r].state # "Reverted"

RECURSIVE SumTo(_, _)
SumTo(f, n) == IF n = 0 THEN Zero ELSE Add(SumTo(f, n - 1), f[n])

\* the native amounts, and the asset amounts sent to the remote transfer,
\* of the sells whose commit stands
SoldNative == SumTo([r \in Rids |-> IF Standing(r) THEN reqs[r].amount ELSE Zero], Len(reqs))
SoldAsset ==
    SumTo([r \in Rids |-> IF Standing(r) THEN reqs[r].asset_amount ELSE Zero], Len(reqs))

\* C29: in every state of any interleaving of alice's sells, what the
\* ledger shows to the next request is already reduced by every sell whose
\* commit stands, before the outcome of its remote transfer: her balance is
\* what she had less the native amounts of these sells, and the pool is what
\* it had less the asset amounts sent to the remote transfer.  So the native
\* amounts of the sells that commit never exceed the balance she had, and
\* the asset amounts sent never exceed the pool.
C29_ConcurrentSellsSeeCommits ==
    /\ Add(AmountIn(accounts, "alice"), SoldNative) = AmountIn(Funded.token.accounts, "alice")
    /\ Add(assets["usdc"].balance, SoldAsset) = Funded.assets["usdc"].balance
    /\ Le(SoldNative, AmountIn(Funded.token.accounts, "alice"))
    /\ Le(SoldAsset, Funded.assets["usdc"].balance)

\* two sells of 4 * 10^17 committed, both waiting for their remote
\* transfer: the second commit found the balance and the pool the first
\* had left
C29_Witness ==
    /\ Len(reqs) = 2
    /\ reqs[1].state = "RemoteTransferRequested"
    /\ reqs[2].state = "RemoteTransferRequested"
    /\ reqs[2].pre.amount = Sub(AmountIn(Funded.token.accounts, "alice"), reqs[1].amount)
    /\ reqs[2].pre.pool = Sub(Funded.assets["usdc"].balance, reqs[1].asset_amount)
    /\ reqs[1].asset_amount # Zero

\* ------------------------------------------------------------------------
\* owner.rs, treasury.rs: who administers
\* ------------------------------------------------------------------------
\* the registry without the pooled balances: which assets, their decimals
\* and status
Registry(as) ==
    [a \in DOMAIN as |-> [decimals |-> as[a].decimals, status |-> as[a].status]]

\* the step is a call of one of the four administrative entry points by c
AdminCall(c) ==
    \/ \E o \in NewOwners : set_owner(c, o)
    \/ \E a \in AssetIds, d \in AssetDecimals : add_asset(c, a, d)
    \/ \E a \in AssetIds : disable_asset(c, a)
    \/ \E a \in AssetIds : enable_asset(c, a)

\* C30: a call of add_asset, enable_asset, disable_asset or set_owner by an
\* account other than the current owner leaves the owner and the assets as
\* they are, and every step of the contract that changes the owner, or
\* which assets are registered, their decimals or their status, is such a
\* call by the current owner.
C30_OnlyOwnerAdministers ==
    [][ /\ \A c \in Callers \ {owner_id} :
              AdminCall(c) => owner_id' = owner_id /\ assets' = assets
        /\ owner_id' # owner_id \/ Registry(assets') # Registry(assets) =>
              AdminCall(owner_id) ]_vars

\* alice has become the owner and has disabled the asset the first owner
\* registered: "owner" is now a caller other than the current owner
C30_Witness ==
    /\ owner_id = "alice"
    /\ "usdc" \in DOMAIN assets
    /\ assets["usdc"].status = "Disabled"
    /\ reqs # <<>>

\* ------------------------------------------------------------------------
\* ft.rs: one holder, deposits, withdrawals and the balance view
\* ------------------------------------------------------------------------
\* 0, 1 (test_account_balance: checked_sub(1, 0)), 100, 200 and 2 * 10^38
HolderAmounts == {Zero, <<1>>, BE(<<100>>), BE(<<200>>), Big}
\* 0, 1 (test_account_balance: checked_add(0, 1)), 1_000_000 and 1_500_000
HolderPrices == {Zero, <<1>>, BE(<<1, 0, 0>>), BE(<<1, 500, 0>>)}

\* ft_balance_of(account_id), recorded with what it returned
balance_of(account_id) ==
    /\ Len(reqs) < MaxCalls
    /\ reqs' = Append(reqs, [kind |-> "ft_balance_of", account_id |-> account_id,
                             ret |-> ft_balance_of(State.token, account_id)])
    /\ UNCHANGED <<overflow_checks, owner_id, assets, accounts, total_supply>>

HolderNext ==
    \/ \E n \in HolderAmounts, p \in HolderPrices : deposit("alice", n, p)
    \/ \E n \in HolderAmounts, p \in HolderPrices : withdraw("alice", n, p)
    \/ \E a \in AccountIds : balance_of(a)

HolderSpec == Init /\ [][HolderNext]_vars

\* a deposit to account_id has succeeded
Deposited(account_id) ==
    \E k \in 1..Len(reqs) :
        reqs[k].kind = "deposit" /\ reqs[k].account_id = account_id /\ reqs[k].ok

\* the view recorded as op, made by this step
BalanceViewed(op) ==
    /\ op.ret = IF op.account_id \in DOMAIN accounts THEN accounts[op.account_id].amount
                ELSE Zero
    /\ ~Deposited(op.account_id) => op.ret = Zero
    /\ accounts' = accounts
    /\ total_supply' = total_supply

\* C31: ft_balance_of returns 0 for an account no deposit was made to and
\* the stored amount of any other; it creates no holder record and changes
\* no balance nor the total supply.
C31_BalanceOfReadsOnly ==
    [][Made("ft_balance_of") => BalanceViewed(reqs'[Len(reqs')])]_vars

\* after alice received 100, the view returned 100 for her and 0 for bob,
\* who has no record, and bob still has none
C31_Witness ==
    /\ Len(reqs) = 3
    /\ reqs[1].kind = "deposit" /\ reqs[1].ok /\ reqs[1].amount = BE(<<100>>)
    /\ reqs[2] = [kind |-> "ft_balance_of", account_id |-> "alice", ret |-> BE(<<100>>)]
    /\ reqs[3] = [kind |-> "ft_balance_of", account_id |-> "bob", ret |-> Zero]
    /\ DOMAIN accounts = {"alice"}

\* ------------------------------------------------------------------------
\* lib.rs: the sell commit fails as a whole
\* ------------------------------------------------------------------------
\* the seller owns less than the sell asks for
NativeShort(req) == Lt(AmountIn(accounts, req.account_id), req.amount)

\* the conversion of the native amount at quote q fails: the quote has fewer
\* decimals than the asset, or amount * multiplier does not fit 128 bits
ConversionFails(req, d, q) ==
    q.decimals < d \/ ~Le(Mul(req.amount, q.multiplier), U128_MAX)

\* the pool holds less than the converted amount
PoolShort(req, d, q) ==
    /\ ~ConversionFails(req, d, q)
    /\ Lt(assets[req.peer_id].balance, NativeToAsset(req.amount, d, q))

QuoteContinuationRan(r) ==
    Ran(r, "buy", "QuoteRequested") \/ Ran(r, "sell", "QuoteRequested")

\* C33: a buy or a sell whose asset is Disabled when its quote continuation
\* runs never commits, whatever the quote: the request aborts, it is not
\* committed, no remote transfer is issued, and the pools, the holders and
\* the total supply stay as they were.
C33_DisabledAssetNeverCommits ==
    [][\A r \in Rids :
        ( /\ QuoteContinuationRan(r)
          /\ assets[reqs[r].peer_id].status = "Disabled" )
        => /\ reqs'[r].state = "Aborted"
           /\ reqs'[r].commits = 0
           /\ reqs'[r].transfers = 0
           /\ LedgerUnchanged]_vars

\* alice's buy of 1_000_000 was accepted while usdc was Enabled; the owner
\* disabled usdc before the quote {10001, 16} arrived, a quote the buy
\* commits at otherwise: the buy aborted and the pool is empty
C33_Witness ==
    \E r \in Rids :
        /\ reqs[r].kind = "buy" /\ reqs[r].state = "Aborted"
        /\ reqs[r].amount = Million
        /\ reqs[r].expected = NoExpected
        /\ reqs[r].promise = OracleResult("Successful", PriceData(1, Some(Price(Q10001, 16))))
        /\ assets["usdc"].status = "Disabled"
        /\ assets["usdc"].decimals = 6
        /\ assets["usdc"].balance = Zero
        /\ total_supply = Zero

\* ------------------------------------------------------------------------
\* ft.rs: the weighted price of one holder
\* ------------------------------------------------------------------------
\* the deposit that gives back the withdrawal op, made on the ledger the
\* withdrawal left
GivenBack(op) ==
    internal_deposit(FungibleToken(accounts', total_supply'), op.account_id, op.amount,
                     op.price)

\* C34: after a withdrawal of amount a at price p has succeeded, the deposit
\* of a at p that follows it, with nothing in between, succeeds and restores
\* the holder's record: the amount and the weighted price are those before
\* the withdrawal.
C34_WithdrawThenDepositRestores ==
    [][Made("withdraw") /\ reqs'[Len(reqs')].ok =>
          /\ GivenBack(reqs'[Len(reqs')]).ok
          /\ GivenBack(reqs'[Len(reqs')]).token.accounts[reqs'[Len(reqs')].account_id]
                = Holding(reqs'[Len(reqs')].account_id)]_vars

\* ------------------------------------------------------------------------
\* price.rs: an asset amount converted to the native token and back
\* ------------------------------------------------------------------------
\* C35: for every asset amount a, asset decimals d and quote q for which
\* both conversions succeed, exchange_kt_to_asset(exchange_asset_to_kt(a, d,
\* q), d, q) <= a: selling the whole native amount a buy credited, at the
\* quote of the buy, takes from the pool no more than the buy put in.
C35_RoundTripNeverGains ==
    Last("exchange_asset_to_kt") /\ reqs[1].res.ok /\ reqs[1].back.ok =>
        Le(reqs[1].back.v, reqs[1].amount)

\* 1_000_000 of a 6-decimals asset at the quote {10001, 10} are
\* 999_900_009_999_000_099 native tokens, which are 999_999 of the asset:
\* 1 is lost to rounding
C35_Witness ==
    /\ Last("exchange_asset_to_kt")
    /\ reqs[1].amount = Million /\ reqs[1].asset_decimals = 6
    /\ reqs[1].price = ExchangePrice(Q10001, 10)
    /\ reqs[1].res = Some(Bought)
    /\ reqs[1].back = Some(BE(<<999, 999>>))

\* ------------------------------------------------------------------------
\* ft.rs: the refund of ft_transfer_call
\* ------------------------------------------------------------------------
\* the resolver of request r moved back from the receiver to the sender, and
\* returned amount - back as used
Refunded(r, back) ==
    /\ Holding(reqs[r].peer_id).amount = Add(AmountIn(accounts', reqs[r].peer_id), back)
    /\ AmountIn(accounts', reqs[r].account_id)
           = Add(Holding(reqs[r].account_id).amount, back)
    /\ total_supply' = total_supply
    /\ Add(reqs'[r].used, back) = reqs[r].amount

\* C36: when ft_transfer_call resolves with a positive unused amount u (u =
\* amount when the receiver's call failed), the resolver moves exactly
\* r = min(receiver's balance, u) back: the receiver's amount decreases by
\* r, the sender's increases by exactly r, total supply is unchanged and the
\* used amount returned is amount - r.
C36_ResolveRefundsExactly ==
    [][\A r \in DOMAIN reqs :
          ( /\ Ran(r, "transfer_call", "TransferRequested")
            /\ unused_amount_of(reqs[r].amount, reqs'[r].result) # Zero )
          => Refunded(r, MinB(Holding(reqs[r].peer_id).amount,
                              unused_amount_of(reqs[r].amount, reqs'[r].result)))]_vars

\* ------------------------------------------------------------------------
\* ft.rs: the weighted price under deposits
\* ------------------------------------------------------------------------
\* call k of the log is an operation of this kind on account_id that succeeded
Applies(k, kind, account_id) ==
    reqs[k].kind = kind /\ reqs[k].account_id = account_id /\ reqs[k].ok

\* the amounts of the first n calls that are operations of this kind on
\* account_id and succeeded, added up
Moved(kind, account_id, n) ==
    SumTo([k \in 1 .. Len(reqs) |-> IF Applies(k, kind, account_id) THEN reqs[k].amount
                                                                    ELSE Zero], n)

\* account_id owned nothing after the first n calls and only deposits were
\* made to it since
DepositsOnlySince(account_id, n) ==
    /\ Moved("deposit", account_id, n) = Moved("withdraw", account_id, n)
    /\ \A k \in n + 1 .. Len(reqs) : ~Applies(k, "withdraw", account_id)

\* the prices of the deposits made to account_id after the first n calls
PricesSince(account_id, n) ==
    { reqs[k].price : k \in { j \in n + 1 .. Len(reqs) : Applies(j, "deposit", account_id) } }

\* price is between the least and the greatest of prices
Within(price, prices) ==
    /\ \E lo \in prices : Le(lo, price)
    /\ \E hi \in prices : Le(price, hi)

\* C37: after a successful deposit at price p into a holder with weighted
\* price w, the new weighted price is between min(w, p) and max(w, p)
\* inclusive; and in every state, a holder to which only deposits were made
\* since its amount was last 0 has a weighted price between the least and the
\* greatest price of these deposits.
C37_DepositKeepsPriceInRange ==
    /\ [][Made("deposit") /\ reqs'[Len(reqs')].ok =>
              Within(accounts'[reqs'[Len(reqs')].account_id].price,
                     {Holding(reqs'[Len(reqs')].account_id).price,
                      reqs'[Len(reqs')].price})]_vars
    /\ [](\A a \in AccountIds, n \in 0 .. Len(reqs) :
              DepositsOnlySince(a, n) /\ PricesSince(a, n) # {} =>
                  Within(accounts[a].price, PricesSince(a, n)))

\* 100 at 1,000,000 then 200 at 1,500,000: alice's price, 1,333,333, is
\* strictly between the two
C37_Witness ==
    /\ Len(reqs) = 2
    /\ reqs[1] = LedgerOp("deposit", "alice", "alice", BE(<<100>>), BE(<<1, 0, 0>>), TRUE)
    /\ reqs[2] = LedgerOp("deposit", "alice", "alice", BE(<<200>>), BE(<<1, 500, 0>>), TRUE)
    /\ accounts["alice"].price = BE(<<1, 333, 333>>)

\* C38: a deposit of a positive amount at price p into a holder whose amount
\* is 0 is made and sets the holder's weighted price to exactly p, whatever
\* weighted price the record held.
C38_FirstDepositSetsPrice ==
    [][( /\ Made("deposit")
         /\ reqs'[Len(reqs')].amount # Zero
         /\ Holding(reqs'[Len(reqs')].account_id).amount = Zero )
       => /\ reqs'[Len(reqs')].ok
          /\ accounts'[reqs'[Len(reqs')].account_id].price = reqs'[Len(reqs')].price]_vars

\* ------------------------------------------------------------------------
\* ft.rs: operations that would leave amount 0 at another price
\* ------------------------------------------------------------------------
\* the operation recorded as op failed and changed nothing
Refused(op) == ~op.ok /\ accounts' = accounts /\ total_supply' = total_supply

\* C39: a deposit or a withdrawal whose resulting amount is 0, at a price
\* other than the weighted price the holder's record has, fails and leaves
\* the holders and the total supply unchanged; so does a withdrawal of a
\* positive amount from an account that has no record (checked_sub(1, 0) on
\* the default record).
C39_ZeroResultAtOtherPriceFails ==
    /\ [][( /\ Made("deposit")
             /\ Add(Holding(reqs'[Len(reqs')].account_id).amount,
                     reqs'[Len(reqs')].amount) = Zero
             /\ reqs'[Len(reqs')].price # Holding(reqs'[Len(reqs')].account_id).price )
           => Refused(reqs'[Len(reqs')])]_vars
    /\ [][( /\ Made("withdraw")
             /\ reqs'[Len(reqs')].amount = Holding(reqs'[Len(reqs')].account_id).amount
             /\ reqs'[Len(reqs')].price # Holding(reqs'[Len(reqs')].account_id).price )
           => Refused(reqs'[Len(reqs')])]_vars
    /\ [][( /\ Made("withdraw")
             /\ reqs'[Len(reqs')].account_id \notin DOMAIN accounts
             /\ reqs'[Len(reqs')].amount # Zero )
           => Refused(reqs'[Len(reqs')])]_vars

\* on alice's empty record the deposit of 0 at price 1 and the withdrawal of
\* 1 at price 0 failed; she then received 100 at 1,000,000, and the
\* withdrawal of all 100 at 1,500,000 failed: she still owns 100
C39_Witness ==
    /\ Len(reqs) = 3
    /\ reqs[1] = LedgerOp("deposit", "alice", "alice", Zero, <<1>>, FALSE)
    /\ reqs[2] = LedgerOp("deposit", "alice", "alice", BE(<<100>>), BE(<<1, 0, 0>>), TRUE)
    /\ reqs[3] = LedgerOp("withdraw", "alice", "alice", BE(<<100>>), BE(<<1, 500, 0>>), FALSE)
    /\ accounts["alice"] = AccountBalance(BE(<<100>>), BE(<<1, 0, 0>>))
    /\ total_supply = BE(<<100>>)

\* ------------------------------------------------------------------------
\* treasury.rs, ft.rs: nothing is ever removed
\* ------------------------------------------------------------------------
\* C40: in every step, every registered asset stays registered with the
\* decimals it had, and every holder record stays: no operation (status
\* change, deposit, withdrawal, buy, sell, compensation, transfer) removes an
\* asset, changes its decimals or removes a holder record.
C40_NothingUnregistered ==
    [][ /\ DOMAIN assets \subseteq DOMAIN assets'
        /\ \A a \in DOMAIN assets : assets'[a].decimals = assets[a].decimals
        /\ DOMAIN accounts \subseteq DOMAIN accounts' ]_vars

\* usdc was registered with 6 decimals, bought with, sold for with the remote
\* transfer failing and the sell compensated, then disabled: it is still
\* registered with 6 decimals, and alice still has her record
C40_Witness ==
    /\ Len(reqs) = 2
    /\ reqs[1].kind = "buy" /\ reqs[1].state = "Committed"
    /\ reqs[2].kind = "sell" /\ reqs[2].state = "Reverted"
    /\ "usdc" \in DOMAIN assets
    /\ assets["usdc"].decimals = 6
    /\ assets["usdc"].status = "Disabled"
    /\ "alice" \in DOMAIN accounts

====
